---- MODULE Spec2Model ----
(***************************************************************************)
(* Data-integrity and recovery scripts of hltvy:                           *)
(*   scripts/cleanup_data.py     Deduplicator and StateReconciler          *)
(*   scripts/recovery_helper.py  RecoveryOrchestrator                      *)
(*   scripts/validate_data.py    Validator                                 *)
(*   scripts/monitor_system.py   IntegrityAnalyzer                         *)
(* The three artifacts results.json, upcoming.json and scrape_state.json   *)
(* are the state; every function that reads or writes them is one action.  *)
(***************************************************************************)
EXTENDS Integers, Sequences, FiniteSets, TLC

VARIABLES
    results,        \* results.json
    upcoming,       \* upcoming.json
    scrape_state,   \* scrape_state.json
    failed_urls,    \* failed_urls.json, a log of lines
    backups,        \* the backup_<timestamp> directories, by timestamp
    now,            \* datetime.now(), in seconds
    op,             \* the function that ran last ("none" before any)
    prevOp,         \* the function that ran before it
    pre,            \* the three artifacts as they were when op started
    raised,         \* op ended with an exception that left the function
    pc,             \* where main of recovery_helper.py stands
    auto_fix,       \* '--auto-fix' in sys.argv
    choice,         \* the menu option typed in
    analysis,       \* what analyze_current_state returned to main
    backup_dir,     \* what backup_current_data returned to main
    log,            \* the calls and prompts of main so far, in order
    validator,      \* the DataValidator: its errors and warnings
    calls,          \* the calls of validate_file so far and what each returned
    metrics,        \* the metrics of the SystemMonitor
    alerts,         \* the alerts of the SystemMonitor
    exit_code,      \* the process result of the script that ran
    reports         \* the files the validator and the monitor have written, by path

files == <<results, upcoming, scrape_state, failed_urls, backups, now>>
history == <<op, prevOp, pre, raised>>
run == <<pc, auto_fix, choice, analysis, backup_dir, log>>
diagnosis == <<validator, calls, metrics, alerts, exit_code, reports>>
vars == <<files, history, run, diagnosis>>

(***************************************************************************)
(* Bounds of the model.                                                    *)
(***************************************************************************)
\* longest results.json that is enumerated
MaxLen == 3
\* most keys of enriched_match_ids that are enumerated
MaxKeys == 3
\* most lines of failed_urls.json that are enumerated
MaxLines == 3
\* longest results.json a run of the recovery helper starts from
RecoveryLen == 2
\* longest upcoming.json that is enumerated
MaxUpcoming == 2
\* longest upcoming.json and results.json a run of the validator starts from
ValidateLen == 2
\* longest upcoming.json and results.json a run of the monitor starts from
MonitorLen == 2
\* longest upcoming.json and results.json a run of the cleanup starts from
CleanupLen == 2
\* most runs of recovery_helper.py in a row
MaxRuns == 2
\* the last second datetime.now() reaches
MaxTime == 1

(***************************************************************************)
(* Program constants.  The two size caps are scaled down so that a         *)
(* collection above the cap can be enumerated; the offset ceiling is the   *)
(* program's.                                                              *)
(***************************************************************************)
\* cleanup_data.py:67  "if len(cleaned_results) > 10000" (10000, scaled)
ResultsCap == 2
\* cleanup_data.py:126 "if len(enriched_ids) > 5000" (5000, scaled)
EnrichedCap == 2
\* cleanup_data.py:120, recovery_helper.py:82 and :280 "> 50000"
OffsetCeiling == 50000
\* cleanup_data.py:140 "if len(lines) > 500" (500, scaled)
FailedCap == 2

(***************************************************************************)
(* JSON values and files.                                                  *)
(* A JSON object is a function whose domain is the set of keys it has, so  *)
(* an absent key and a key with a falsy value are different things.        *)
(* A file is missing, not parseable, or holds a list or an object.         *)
(***************************************************************************)
Missing == [kind |-> "missing"]
Malformed == [kind |-> "malformed"]
JList(v) == [kind |-> "list", value |-> v]
JDict(v) == [kind |-> "dict", value |-> v]

\* os.path.exists
exists(file) == file.kind # "missing"

\* dict.get(key, default)
get(d, key, default) == IF key \in DOMAIN d THEN d[key] ELSE default

\* ISO dates are compared as Python compares strings: the date strings of
\* the model in ascending string order.  '1900-01-01' is sort_key's default
\* and no record's date, so a record without date ties with no dated one.
DateOrder == <<"1899-12-31", "1900-01-01", "2024-01-01">>
Dates == {"1899-12-31", "2024-01-01"}
DateRank(s) == CHOOSE i \in DOMAIN DateOrder : DateOrder[i] = s
\* str.__lt__ on two dates
StrLess(a, b) == DateRank(a) < DateRank(b)

\* match-ids are JSON numbers; 0 is the falsy one
MatchIds == {0, 1, 2}

\* a MatchResult: any of the keys match-id and date may be absent
MatchResults ==
    UNION { { [k \in K |-> IF k = "match-id" THEN i ELSE d] :
                i \in MatchIds, d \in Dates } :
            K \in SUBSET {"match-id", "date"} }

\* the lists of at most n elements of S
SeqsUpTo(S, n) == UNION { [1..m -> S] : m \in 0..n }

\* d[key] = v
set(d, key, v) == [k \in DOMAIN d \cup {key} |-> IF k = key THEN v ELSE d[k]]

\* {}
EmptyDict == [k \in {} |-> 0]

\* "with open(path, 'w') as f:" and the write of content: the files by
\* path, with the file at path created or replaced
open_w(fs, path, content) ==
    [p \in DOMAIN fs \cup {path} |-> IF p = path THEN content ELSE fs[p]]

\* the keys of enriched_match_ids are match identifiers as strings, and are
\* compared as Python compares strings: the keys of the model in ascending
\* string order ("10" < "2")
EnrichedKeyOrder == <<"10", "2", "9", "99">>
EnrichedKeys == {EnrichedKeyOrder[i] : i \in DOMAIN EnrichedKeyOrder}
KeyRank(s) == CHOOSE i \in DOMAIN EnrichedKeyOrder : EnrichedKeyOrder[i] = s
\* the enrichment markers
EnrichedValues == {"2024-01-01T10:00", "2024-01-02T10:00"}

\* the mappings enriched_match_ids of at most n entries
EnrichedMaps(n) ==
    UNION { [K -> EnrichedValues] : K \in { S \in SUBSET EnrichedKeys : Cardinality(S) <= n } }

\* results_offset: at, below and above the ceiling
Offsets == {0, OffsetCeiling, OffsetCeiling + 1}

\* a ScrapeState: any of its keys may be absent; last_run stands for every
\* key the scripts do not know
ScrapeStates(n) ==
    UNION { { [k \in K |-> IF k = "results_offset" THEN o
                           ELSE IF k = "enriched_match_ids" THEN e
                           ELSE "2024-01-03T10:00"] :
                o \in Offsets, e \in EnrichedMaps(n) } :
            K \in SUBSET {"results_offset", "enriched_match_ids", "last_run"} }

\* a line-oriented file with the lines v
Lines(v) == [kind |-> "lines", value |-> v]

\* truth value of match.get('match-id'): None and 0 are falsy
Truthy(match, key) == key \in DOMAIN match /\ match[key] # 0

\* JSON values of another type than the program expects.  A number where a
\* string is expected is the token NonString, a string where a mapping is
\* expected is the one-key function NonMapping, an object where the list of
\* maps is expected is MapsObject, null is None.
NonString == "#7"
NonMapping == [k \in {"<str>"} |-> "x"]
MapsObject == <<[k \in {"<dict>"} |-> "de_mirage"]>>
None == "<None>"

\* isinstance(v, str), isinstance(match, dict), isinstance(maps, list)
isinstance_str(v) == v # NonString
isinstance_dict(match) == match # NonMapping
isinstance_list(maps) == maps # MapsObject

\* truth value of a string field: '' is falsy
NonEmpty(match, key) == key \in DOMAIN match /\ match[key] # ""

(***************************************************************************)
(* cleanup_data.py                                                         *)
(***************************************************************************)
\* load_json_safe: the parsed content, [] for a missing or unparseable file
load_json_safe(file) ==
    IF file.kind \in {"missing", "malformed"} THEN JList(<<>>) ELSE file

\* load_json_safe logs an error: "except Exception as e: logging.error(...)"
load_json_safe_error(file) == file.kind = "malformed"

\* the loop with the records without match-id taken as duplicates of one
\* another: the falsy match-id goes through seen_ids as well
RECURSIVE DedupLoopMerging(_, _, _, _)
DedupLoopMerging(list, i, seen_ids, cleaned) ==
    IF i > Len(list) THEN cleaned
    ELSE LET match_id == get(list[i], "match-id", 0)
         IN  IF match_id \notin seen_ids
             THEN DedupLoopMerging(list, i + 1, seen_ids \cup {match_id},
                                   Append(cleaned, list[i]))
             ELSE DedupLoopMerging(list, i + 1, seen_ids, cleaned)

\* the loop "for match in results" of cleanup_results_data (and, with the
\* same body, of fix_duplicate_matches), from element i on
RECURSIVE DedupLoop(_, _, _, _)
DedupLoop(list, i, seen_ids, cleaned) ==
    IF i > Len(list) THEN cleaned
    ELSE LET match == list[i]
         IN  IF Truthy(match, "match-id") /\ match["match-id"] \notin seen_ids
             THEN DedupLoop(list, i + 1, seen_ids \cup {match["match-id"]},
                            Append(cleaned, match))
             ELSE IF ~Truthy(match, "match-id")
             THEN DedupLoop(list, i + 1, seen_ids, Append(cleaned, match))
             ELSE DedupLoop(list, i + 1, seen_ids, cleaned)

\* sort_key of cleanup_results_data
sort_key(match) == <<get(match, "date", "1900-01-01"), get(match, "match-id", 0)>>

\* a comparison that stops at the date
KeyLessDateOnly(a, b) == StrLess(a[1], b[1])

\* tuple comparison of two sort keys
KeyLess(a, b) == StrLess(a[1], b[1]) \/ (a[1] = b[1] /\ a[2] < b[2])

\* the key of fix_duplicate_matches: lambda x: x.get('match-id', 0)
id_key(match) == get(match, "match-id", 0)

\* key(a) < key(b) for the two sorts of the program
Less(by, a, b) ==
    IF by = "date,match-id" THEN KeyLess(sort_key(a), sort_key(b))
    ELSE id_key(a) < id_key(b)

\* list.sort(key=...) followed by list.reverse(): descending, equal keys in
\* reverse order
InsertDescUnstable(sorted, x, by) ==
    LET n == Cardinality({ i \in 1..Len(sorted) : Less(by, x, sorted[i]) })
    IN  SubSeq(sorted, 1, n) \o <<x>> \o SubSeq(sorted, n + 1, Len(sorted))

\* list.sort(key=..., reverse=True): descending, and stable (elements with
\* equal keys keep their order).  x goes behind every element whose key is
\* not smaller than its own.
InsertDesc(sorted, x, by) ==
    LET n == Cardinality({ i \in 1..Len(sorted) : ~Less(by, sorted[i], x) })
    IN  SubSeq(sorted, 1, n) \o <<x>> \o SubSeq(sorted, n + 1, Len(sorted))

RECURSIVE SortReverse(_, _)
SortReverse(list, by) ==
    IF list = <<>> THEN <<>>
    ELSE InsertDesc(SortReverse(SubSeq(list, 1, Len(list) - 1), by),
                    list[Len(list)], by)

\* cleaned_results[-10000:]
TruncateTail(list, cap) ==
    IF Len(list) > cap THEN SubSeq(list, Len(list) - cap + 1, Len(list)) ELSE list

\* cleaned_results[:10000]
Truncate(list, cap) == IF Len(list) > cap THEN SubSeq(list, 1, cap) ELSE list

\* what cleanup_results_data hands to save_json for a non-empty list
CleanedResults(list) ==
    Truncate(SortReverse(DedupLoop(list, 1, {}, <<>>), "date,match-id"), ResultsCap)

\* cleanup_results_data, as [file, raised]: the new results.json and
\* whether an exception left the function.  A falsy load (missing,
\* unparseable, [] or {}) returns before any write; iterating a non-empty
\* object yields its keys, and str has no get.
cleanup_results_data(file) ==
    LET loaded == load_json_safe(file)
    IN  IF loaded.value = <<>> THEN [file |-> file, raised |-> FALSE]
        ELSE IF loaded.kind = "dict" THEN [file |-> file, raised |-> TRUE]
        ELSE [file |-> JList(CleanedResults(loaded.value)), raised |-> FALSE]

\* the first loop of cleanup_upcoming_data: the entries with team names
\* and href whose teams differ
CleanedUpcoming(list) ==
    LET Valid(match) == /\ NonEmpty(match, "team1")
                        /\ NonEmpty(match, "team2")
                        /\ NonEmpty(match, "href")
                        /\ match["team1"] # match["team2"]
    IN  SelectSeq(list, Valid)

\* the second loop with the later entry of a href put in place of the
\* earlier one
RECURSIVE HrefLoopLast(_, _, _, _)
HrefLoopLast(list, i, seen_hrefs, final) ==
    IF i > Len(list) THEN final
    ELSE LET href == list[i]["href"]
         IN  IF href \notin seen_hrefs
             THEN HrefLoopLast(list, i + 1, seen_hrefs \cup {href}, Append(final, list[i]))
             ELSE HrefLoopLast(list, i + 1, seen_hrefs,
                               [k \in DOMAIN final |->
                                   IF final[k]["href"] = href THEN list[i] ELSE final[k]])

\* the second loop of cleanup_upcoming_data, from element i on: the first
\* entry of each href
RECURSIVE HrefLoop(_, _, _, _)
HrefLoop(list, i, seen_hrefs, final) ==
    IF i > Len(list) THEN final
    ELSE LET href == list[i]["href"]
         IN  IF href \notin seen_hrefs
             THEN HrefLoop(list, i + 1, seen_hrefs \cup {href}, Append(final, list[i]))
             ELSE HrefLoop(list, i + 1, seen_hrefs, final)

\* cleanup_upcoming_data, as [file, raised].  A falsy load returns before
\* any write; an element that is no mapping has no get (iterating a
\* non-empty object yields its keys): the exception leaves the function
\* before save_json.
cleanup_upcoming_data(file) ==
    LET loaded == load_json_safe(file)
    IN  IF loaded.value = <<>> THEN [file |-> file, raised |-> FALSE]
        ELSE IF loaded.kind = "dict" THEN [file |-> file, raised |-> TRUE]
        ELSE IF \E i \in 1..Len(loaded.value) : ~isinstance_dict(loaded.value[i])
        THEN [file |-> file, raised |-> TRUE]
        ELSE [file |-> JList(HrefLoop(CleanedUpcoming(loaded.value), 1, {}, <<>>)),
              raised |-> FALSE]

\* sorted(enriched_ids.items(), key=lambda x: x[0], reverse=True)[:cap] as a
\* dict: the entries whose key has fewer than cap greater keys; this one
\* counts the smaller keys (reverse=True forgotten)
TopEntriesAscending(enriched_ids, cap) ==
    LET keep == { k \in DOMAIN enriched_ids :
                    Cardinality({ j \in DOMAIN enriched_ids : KeyRank(j) < KeyRank(k) }) < cap }
    IN  [k \in keep |-> enriched_ids[k]]

\* dict(sorted(enriched_ids.items(), key=lambda x: x[0], reverse=True)[:cap])
TopEntries(enriched_ids, cap) ==
    LET keep == { k \in DOMAIN enriched_ids :
                    Cardinality({ j \in DOMAIN enriched_ids : KeyRank(j) > KeyRank(k) }) < cap }
    IN  [k \in keep |-> enriched_ids[k]]

\* "if state.get('results_offset', 0) >= 50000"
ResetHighOffsetAtCeiling(state) ==
    IF get(state, "results_offset", 0) >= OffsetCeiling
    THEN set(state, "results_offset", 0) ELSE state

\* "if state.get('results_offset', 0) > 50000: state['results_offset'] = 0"
ResetHighOffset(state) ==
    IF get(state, "results_offset", 0) > OffsetCeiling
    THEN set(state, "results_offset", 0) ELSE state

\* the trim of enriched_match_ids in cleanup_state_files
TrimEnriched(state) ==
    LET enriched_ids == get(state, "enriched_match_ids", EmptyDict)
    IN  IF Cardinality(DOMAIN enriched_ids) > EnrichedCap
        THEN set(state, "enriched_match_ids", TopEntries(enriched_ids, EnrichedCap))
        ELSE state

\* lines[-500:] of failed_urls.json
TrimFailedUrls(file) ==
    IF exists(file) /\ Len(file.value) > FailedCap
    THEN Lines(SubSeq(file.value, Len(file.value) - FailedCap + 1, Len(file.value)))
    ELSE file

\* cleanup_state_files, as [state, failed, raised].  An existing
\* scrape_state.json that load_json_safe cannot parse is loaded as [], and
\* one that holds a list as that list: a list has no get, the exception
\* leaves the function and failed_urls.json is not reached.
cleanup_state_files(state_file, failed_file) ==
    IF ~exists(state_file)
    THEN [state |-> state_file, failed |-> TrimFailedUrls(failed_file), raised |-> FALSE]
    ELSE LET loaded == load_json_safe(state_file)
         IN  IF loaded.kind # "dict"
             THEN [state |-> state_file, failed |-> failed_file, raised |-> TRUE]
             ELSE [state |-> JDict(TrimEnriched(ResetHighOffset(loaded.value))),
                   failed |-> TrimFailedUrls(failed_file), raised |-> FALSE]

(***************************************************************************)
(* recovery_helper.py                                                      *)
(***************************************************************************)
\* unique_results.reverse() in place of the sort
UniqueResultsReversed(list) ==
    LET unique == DedupLoop(list, 1, {}, <<>>)
    IN  [i \in 1..Len(unique) |-> unique[Len(unique) + 1 - i]]

\* what fix_duplicate_matches writes for a list
UniqueResults(list) == SortReverse(DedupLoop(list, 1, {}, <<>>), "match-id")

\* fix_duplicate_matches, as [file, ok]: the new results.json and the
\* return value.  Every exception is caught inside the function.
fix_duplicate_matches(file) ==
    IF ~exists(file) THEN [file |-> file, ok |-> FALSE]
    ELSE IF file.kind = "malformed" THEN [file |-> file, ok |-> FALSE]
    ELSE IF file.kind # "list" THEN [file |-> file, ok |-> FALSE]
    ELSE [file |-> JList(UniqueResults(file.value)), ok |-> TRUE]

\* d[key] = v in place of d.setdefault(key, v)
setdefault_assigns(d, key, v) == set(d, key, v)

\* dict.setdefault(key, v)
setdefault(d, key, v) == IF key \in DOMAIN d THEN d ELSE set(d, key, v)

\* reset_scrape_state, as [file, ok]: the new scrape_state.json and the
\* return value.  json.load of an unparseable file raises, and so does
\* get or setdefault on a list; every exception is caught before the write.
reset_scrape_state(file, reset_offset, reset_enriched) ==
    IF file.kind \in {"malformed", "list"} THEN [file |-> file, ok |-> FALSE]
    ELSE LET state == IF exists(file) THEN file.value ELSE EmptyDict
             s1 == IF reset_offset THEN set(state, "results_offset", 0) ELSE state
             s2 == IF reset_enriched THEN set(s1, "enriched_match_ids", EmptyDict) ELSE s1
             s3 == setdefault(setdefault(s2, "results_offset", 0),
                              "enriched_match_ids", EmptyDict)
         IN  [file |-> JDict(s3), ok |-> TRUE]

\* the content create_missing_files gives scrape_state.json
DefaultState == JDict(set(set(EmptyDict, "results_offset", 0), "enriched_match_ids", EmptyDict))

\* create_missing_files that writes the defaults whenever the file does not
\* hold a value of the right type
create_missing_files_overwrite(r, u, st) ==
    [results |-> IF r.kind # "list" THEN JList(<<>>) ELSE r,
     upcoming |-> IF u.kind # "list" THEN JList(<<>>) ELSE u,
     scrape_state |-> IF st.kind # "dict" THEN DefaultState ELSE st,
     files_created |-> {}]

\* create_missing_files: the three artifacts afterwards and files_created
create_missing_files(r, u, st) ==
    [results |-> IF ~exists(r) THEN JList(<<>>) ELSE r,
     upcoming |-> IF ~exists(u) THEN JList(<<>>) ELSE u,
     scrape_state |-> IF ~exists(st) THEN DefaultState ELSE st,
     files_created |-> { f \in {[name |-> "results.json", file |-> r],
                                 [name |-> "upcoming.json", file |-> u],
                                 [name |-> "scrape_state.json", file |-> st]} :
                           ~exists(f.file) }]

\* files_to_backup of backup_current_data, in order
files_to_backup == <<"results.json", "upcoming.json", "scrape_state.json">>

\* where backup_current_data can raise: in os.makedirs, or while it copies
\* one of the files that exist
FailPoints(r, u, st) ==
    {"none", "makedirs"}
    \cup { f.name : f \in { g \in {[name |-> "results.json", file |-> r],
                                    [name |-> "upcoming.json", file |-> u],
                                    [name |-> "scrape_state.json", file |-> st]} :
                              exists(g.file) } }

\* what backup_current_data returns: None, or the directory of a timestamp
NoDir == [made |-> FALSE]
Dir(t) == [made |-> TRUE, timestamp |-> t]

\* backup_current_data at time t, raising at fail, as [backups, backup_dir].
\* The directory is named after the second; the files that exist are
\* copied as text, in order, until one raises.
backup_current_data(dirs, t, r, u, st, fail) ==
    IF fail = "makedirs" THEN [backups |-> dirs, backup_dir |-> NoDir]
    ELSE LET file(name) == IF name = "results.json" THEN r
                           ELSE IF name = "upcoming.json" THEN u ELSE st
             last == IF fail = "none" THEN Len(files_to_backup)
                     ELSE (CHOOSE i \in DOMAIN files_to_backup : files_to_backup[i] = fail) - 1
             copied == { files_to_backup[i] : i \in { j \in 1..last : exists(file(files_to_backup[j])) } }
             old == IF t \in DOMAIN dirs THEN dirs[t] ELSE EmptyDict
             dir == [name \in DOMAIN old \cup copied |->
                        IF name \in copied THEN file(name) ELSE old[name]]
         IN  [backups |-> [x \in DOMAIN dirs \cup {t} |-> IF x = t THEN dir ELSE dirs[x]],
              backup_dir |-> IF fail = "none" THEN Dir(t) ELSE NoDir]

\* the count with "match_ids = [r.get('match-id') for r in results]": every
\* record counts, with or without match-id
DuplicatesOfAll(list) ==
    LET idx == { i \in 1..Len(list) : Truthy(list[i], "match-id") }
    IN  Len(list) - Cardinality({ list[i]["match-id"] : i \in idx })

\* len(match_ids) - len(unique_ids) of analyze_current_state: match_ids are
\* the truthy match-ids of the list
Duplicates(list) ==
    LET idx == { i \in 1..Len(list) : Truthy(list[i], "match-id") }
    IN  Cardinality(idx) - Cardinality({ list[i]["match-id"] : i \in idx })

\* truth value of "r.get('maps') or r.get('format')"
maps_or_format(r) ==
    \/ "maps" \in DOMAIN r /\ r["maps"] # <<>>
    \/ NonEmpty(r, "format")

\* sum(1 for r in results if r.get('maps') or r.get('format'))
enriched_matches(list) == Cardinality({ i \in DOMAIN list : maps_or_format(list[i]) })

\* enriched_count / len(results) * 100 of a list that is not empty, rounded
\* down to a whole number
enrichment_rate(enriched_count, list) == (enriched_count * 100) \div Len(list)

\* analysis['files']['results.json'] (the keys main reads, and the
\* enrichment).  An element that is no mapping has no get: the except
\* branch reports the file as not valid.
results_info(file) ==
    IF ~exists(file) THEN [exists |-> FALSE]
    ELSE IF file.kind = "malformed" THEN [exists |-> TRUE, valid |-> FALSE]
    ELSE IF file.kind # "list" THEN [exists |-> TRUE, valid |-> FALSE]
    ELSE IF file.value = <<>> THEN [exists |-> TRUE, valid |-> TRUE]
    ELSE IF \E i \in DOMAIN file.value : ~isinstance_dict(file.value[i])
    THEN [exists |-> TRUE, valid |-> FALSE]
    ELSE [exists |-> TRUE, valid |-> TRUE, duplicates |-> Duplicates(file.value),
          enriched_matches |-> enriched_matches(file.value),
          enrichment_rate |-> enrichment_rate(enriched_matches(file.value), file.value)]

\* analysis['state'] (the keys main reads); get on a list raises inside the
\* try
state_info(file) ==
    IF ~exists(file) THEN [exists |-> FALSE]
    ELSE IF file.kind # "dict" THEN [exists |-> TRUE, valid |-> FALSE]
    ELSE [exists |-> TRUE, valid |-> TRUE,
          results_offset |-> get(file.value, "results_offset", 0)]

\* analyze_current_state
analyze_current_state(r, st) == [results |-> results_info(r), state |-> state_info(st)]

(***************************************************************************)
(* validate_data.py                                                        *)
(***************************************************************************)
\* href.startswith('/matches/')
Hrefs == {"", "/matches/1", "hltv.org/1", NonString}
startswith_matches(href) == href \in {"/matches/1"}

\* float(odds) does not raise
OddsValues == {"N/A", "1.85", "TBD"}
float_ok(odds) == odds \in {"1.85"}

\* datetime.strptime(date, '%Y-%m-%d') does not raise ValueError
strptime_ok(date) == date \in {"2024-01-01"}

\* int(score) does not raise
int_ok(score) == score \in {"16"}

\* an entry of upcoming.json: any of team1, team2 and href may be absent
\* or empty, the href may be ill-formed or no string; some entries carry
\* odds of one bookmaker; one entry is no mapping
UpcomingMatches ==
    UNION { { [k \in K |-> IF k = "team1" THEN t1 ELSE IF k = "team2" THEN t2 ELSE h] :
                t1 \in {"", "A"}, t2 \in {"A", "B"}, h \in Hrefs } :
            K \in SUBSET {"team1", "team2", "href"} }
    \cup { [team1 |-> "A", team2 |-> "B", href |-> "/matches/1", leovegas1 |-> o] :
             o \in OddsValues }
    \cup {NonMapping}

\* the records of results.json the validator is run on: without fault,
\* without url, without match-id and with an ill-formed date, with a date
\* that is no string, with a negative score and faulty maps, with maps that
\* are no list, and a record that is no mapping
ValidatedResults ==
    {[k \in {"match-id", "url"} |-> IF k = "match-id" THEN 1 ELSE "/matches/1/a-vs-b"],
     [k \in {"match-id"} |-> 1],
     [url |-> "/matches/1/a-vs-b", date |-> "01/02/2024"],
     [url |-> "/matches/1/a-vs-b", date |-> NonString],
     [k \in {"match-id", "url", "date", "team1score", "maps"} |->
        IF k = "match-id" THEN 2
        ELSE IF k = "url" THEN "/matches/2/c-vs-d"
        ELSE IF k = "date" THEN "2024-01-01"
        ELSE IF k = "team1score" THEN -1
        ELSE <<EmptyDict, NonMapping, [map |-> "Mirage", team1 |-> [score |-> "n/a"]]>>],
     [k \in {"match-id", "url", "maps"} |->
        IF k = "match-id" THEN 2
        ELSE IF k = "url" THEN "/matches/2/c-vs-d" ELSE MapsObject],
     NonMapping}

\* one message of the validator: f"{prefix} {index}: {text} '{field}'"
Msg(prefix, index, text, field) ==
    [prefix |-> prefix, index |-> index, text |-> text, field |-> field]

\* one message per field of a list of fields
Each(fields, prefix, index, text) ==
    [k \in 1..Len(fields) |-> Msg(prefix, index, text, fields[k])]

\* DataValidator()
DataValidator == [errors |-> <<>>, warnings |-> <<>>]

\* what a piece of a validation leaves: the messages it appended and
\* whether an exception left it
Found(errors, warnings, exc) == [errors |-> errors, warnings |-> warnings, raised |-> exc]

required_fields == <<"team1", "team2", "href">>
bookmaker_fields == <<"leovegas1", "leovegas2", "nordic1", "nordic2", "unibet1", "unibet2">>

\* the body of the loop of validate_upcoming_odds for the entry of index i.
\* str.startswith on a href that is no string raises AttributeError, after
\* the messages of the entry that come before it.
CheckUpcoming(match, i) ==
    IF ~isinstance_dict(match)
    THEN Found(<<Msg("Match", i, "Must be a dictionary", "")>>, <<>>, FALSE)
    ELSE LET IsMissing(f) == f \notin DOMAIN match
             IsEmpty(f) == f \in DOMAIN match /\ ~NonEmpty(match, f)
             BadOdds(f) == /\ f \in DOMAIN match
                           /\ match[f] \notin {"N/A", None}
                           /\ ~float_ok(match[f])
             same == IF /\ "team1" \in DOMAIN match
                        /\ "team2" \in DOMAIN match
                        /\ match["team1"] = match["team2"]
                     THEN <<Msg("Match", i, "team1 and team2 cannot be the same", "")>>
                     ELSE <<>>
             checked == NonEmpty(match, "href")
             format == IF checked /\ isinstance_str(match["href"])
                          /\ ~startswith_matches(match["href"])
                       THEN <<Msg("Match", i, "Unexpected href format", "href")>>
                       ELSE <<>>
         IN  Found(Each(SelectSeq(required_fields, IsMissing), "Match", i,
                        "Missing required field") \o same,
                   Each(SelectSeq(required_fields, IsEmpty), "Match", i,
                        "Empty value for")
                       \o Each(SelectSeq(bookmaker_fields, BadOdds), "Match", i,
                               "Invalid odds format for")
                       \o format,
                   checked /\ ~isinstance_str(match["href"]))

\* "for i, match in enumerate(data)" of validate_upcoming_odds from element
\* i on; an exception ends the loop
RECURSIVE UpcomingLoop(_, _, _)
UpcomingLoop(data, i, found) ==
    IF i > Len(data) \/ found.raised THEN found
    ELSE LET c == CheckUpcoming(data[i], i - 1)
         IN  UpcomingLoop(data, i + 1,
                          Found(found.errors \o c.errors,
                                found.warnings \o c.warnings, c.raised))

\* what a method of the DataValidator leaves: the validator afterwards, the
\* value returned and whether an exception left the method
Returned(self, found, ok) ==
    [self |-> [errors |-> self.errors \o found.errors,
               warnings |-> self.warnings \o found.warnings],
     ok |-> ok, raised |-> found.raised]

\* validate_upcoming_odds: "return len(self.errors) == 0"
validate_upcoming_odds(self, data) ==
    IF data.kind # "list"
    THEN Returned(self, Found(<<Msg("upcoming.json", -1, "must contain a list", "")>>,
                              <<>>, FALSE), FALSE)
    ELSE LET found == UpcomingLoop(data.value, 1, Found(<<>>, <<>>, FALSE))
         IN  Returned(self, found, Len(self.errors) + Len(found.errors) = 0)

\* validate_maps_data for the maps of the record of index i
validate_maps_data(maps, i) ==
    IF ~isinstance_list(maps)
    THEN Found(<<Msg("Result", i, "maps must be a list", "")>>, <<>>, FALSE)
    ELSE LET NoDict(j) == ~isinstance_dict(maps[j])
             NoName(j) == isinstance_dict(maps[j]) /\ "map" \notin DOMAIN maps[j]
             BadScore(j, team_key) ==
                 /\ isinstance_dict(maps[j])
                 /\ team_key \in DOMAIN maps[j]
                 /\ "score" \in DOMAIN maps[j][team_key]
                 /\ ~int_ok(maps[j][team_key]["score"])
             MapErrors(j) ==
                 IF NoDict(j) THEN <<Msg("Result", i, "Map: Must be a dictionary", "")>>
                 ELSE IF NoName(j) THEN <<Msg("Result", i, "Map: Missing map name", "")>>
                 ELSE <<>>
             MapWarnings(j) ==
                 LET Bad(team_key) == BadScore(j, team_key)
                 IN  Each(SelectSeq(<<"team1", "team2">>, Bad), "Result", i,
                          "Map: Invalid score for")
             RECURSIVE MapsLoop(_, _)
             MapsLoop(j, found) ==
                 IF j > Len(maps) THEN found
                 ELSE MapsLoop(j + 1, Found(found.errors \o MapErrors(j),
                                            found.warnings \o MapWarnings(j), FALSE))
         IN  MapsLoop(1, Found(<<>>, <<>>, FALSE))

\* the body of the loop of validate_results for the record of index i, with
\* the match-ids seen before it.  strptime on a date that is no string
\* raises TypeError, which "except ValueError" does not catch: the scores
\* and the maps of the record are not reached.
CheckResult(match, i, match_ids) ==
    IF ~isinstance_dict(match)
    THEN Found(<<Msg("Result", i, "Must be a dictionary", "")>>, <<>>, FALSE)
    ELSE LET IsMissing(f) == f \notin DOMAIN match
             duplicate == IF Truthy(match, "match-id") /\ match["match-id"] \in match_ids
                          THEN <<Msg("Result", i, "Duplicate match-id", "")>>
                          ELSE <<>>
             dated == NonEmpty(match, "date")
             exc == dated /\ ~isinstance_str(match["date"])
             format == IF dated /\ ~exc /\ ~strptime_ok(match["date"])
                       THEN <<Msg("Result", i, "Invalid date format", "date")>>
                       ELSE <<>>
             BadScore(f) == f \in DOMAIN match /\ match[f] < 0
             mapped == "maps" \in DOMAIN match /\ match["maps"] # <<>>
             maps == IF mapped THEN validate_maps_data(match["maps"], i)
                     ELSE Found(<<>>, <<>>, FALSE)
             before == Each(SelectSeq(<<"match-id", "url">>, IsMissing), "Result", i,
                            "Missing required field") \o duplicate
         IN  IF exc THEN Found(before, <<>>, TRUE)
             ELSE Found(before \o format
                            \o Each(SelectSeq(<<"team1score", "team2score">>, BadScore),
                                    "Result", i, "Invalid score for")
                            \o maps.errors,
                        maps.warnings, FALSE)

\* "for i, match in enumerate(data)" of validate_results from element i on
RECURSIVE ResultsLoop(_, _, _, _)
ResultsLoop(data, i, match_ids, found) ==
    IF i > Len(data) \/ found.raised THEN found
    ELSE LET match == data[i]
             c == CheckResult(match, i - 1, match_ids)
             ids == IF isinstance_dict(match) /\ Truthy(match, "match-id")
                    THEN match_ids \cup {match["match-id"]} ELSE match_ids
         IN  ResultsLoop(data, i + 1, ids,
                         Found(found.errors \o c.errors,
                               found.warnings \o c.warnings, c.raised))

\* validate_results: "return len(self.errors) == 0"
validate_results(self, data) ==
    IF data.kind # "list"
    THEN Returned(self, Found(<<Msg("results.json", -1, "must contain a list", "")>>,
                              <<>>, FALSE), FALSE)
    ELSE LET found == ResultsLoop(data.value, 1, {}, Found(<<>>, <<>>, FALSE))
         IN  Returned(self, found, Len(self.errors) + Len(found.errors) = 0)

\* validate_file(filepath, validator_func) for 'upcoming.json' with
\* validate_upcoming_odds and for 'results.json' with validate_results
validate_file(self, filepath, file) ==
    IF ~exists(file)
    THEN Returned(self, Found(<<>>, <<Msg(filepath, -1, "does not exist", "")>>, FALSE), TRUE)
    ELSE IF file.kind = "malformed"
    THEN Returned(self, Found(<<Msg(filepath, -1, "Invalid JSON", "")>>, <<>>, FALSE), FALSE)
    ELSE IF filepath = "upcoming.json" THEN validate_upcoming_odds(self, file)
    ELSE validate_results(self, file)

\* generate_summary and "with open('validation_summary.txt', 'w', ...)":
\* the summary holds a line for each error, then one for each warning
write_summary(fs, self) ==
    open_w(fs, "validation_summary.txt",
           [kind |-> "lines", value |-> self.errors \o self.warnings])

(***************************************************************************)
(* monitor_system.py                                                       *)
(***************************************************************************)
\* one alert of the monitor: f"{item} {text}".  Wherever the monitor
\* appends an alert it appends a recommendation too; the model keeps the
\* alerts.
Alert(item, text) == [item |-> item, text |-> text]

\* SystemMonitor(): self.metrics (without the timestamp)
SystemMonitor ==
    [data_freshness |-> EmptyDict, file_sizes |-> EmptyDict, system_health |-> EmptyDict]

\* the files check_data_freshness and check_file_sizes go through, in order
files_to_check == <<"upcoming.json", "results.json", "scrape_state.json">>

\* files_to_check of check_data_freshness: the greatest age in hours
max_age_hours(filename) ==
    IF filename = "upcoming.json" THEN 6 ELSE IF filename = "results.json" THEN 24 ELSE 12

\* expected_sizes[filename]['min'] of check_file_sizes
min_size(filename) ==
    IF filename = "upcoming.json" THEN 100 ELSE IF filename = "results.json" THEN 1000 ELSE 50

\* expected_sizes[filename]['max'] of check_file_sizes
max_size(filename) ==
    IF filename = "upcoming.json" THEN 1000000
    ELSE IF filename = "results.json" THEN 100000000 ELSE 10000

\* the file of a name
FileOf(filename, r, u, st) ==
    IF filename = "results.json" THEN r ELSE IF filename = "upcoming.json" THEN u ELSE st

\* the names of files_to_check whose file exists
Existing(r, u, st) ==
    { files_to_check[i] : i \in { j \in DOMAIN files_to_check :
                                    exists(FileOf(files_to_check[j], r, u, st)) } }

\* check_data_freshness with the ages in hours of the existing files (whole
\* hours), as [data_freshness, alerts]
check_data_freshness(r, u, st, age_hours) ==
    LET present(filename) == exists(FileOf(filename, r, u, st))
        Of(filename) ==
            IF ~present(filename) THEN <<Alert(filename, "is missing")>>
            ELSE IF age_hours[filename] > max_age_hours(filename)
            THEN <<Alert(filename, "is stale")>>
            ELSE <<>>
    IN  [data_freshness |->
            [filename \in {files_to_check[i] : i \in DOMAIN files_to_check} |->
                IF present(filename)
                THEN [age_hours |-> age_hours[filename],
                      is_stale |-> age_hours[filename] > max_age_hours(filename)]
                ELSE [exists |-> FALSE, is_stale |-> TRUE]],
         alerts |-> Of(files_to_check[1]) \o Of(files_to_check[2]) \o Of(files_to_check[3])]

\* check_file_sizes with the sizes in bytes of the existing files, as
\* [file_sizes, alerts]
check_file_sizes(r, u, st, size) ==
    LET Of(filename) ==
            IF ~exists(FileOf(filename, r, u, st)) THEN <<>>
            ELSE IF size[filename] < min_size(filename)
            THEN <<Alert(filename, "is unusually small")>>
            ELSE IF size[filename] > max_size(filename)
            THEN <<Alert(filename, "is unusually large")>>
            ELSE <<>>
    IN  [file_sizes |-> [filename \in Existing(r, u, st) |-> [size_bytes |-> size[filename]]],
         alerts |-> Of(files_to_check[1]) \o Of(files_to_check[2]) \o Of(files_to_check[3])]

\* any(match.get(f'{bm}1', 'N/A') != 'N/A' for bm in ['leovegas', 'nordic', 'unibet'])
has_odds(match) ==
    \E field \in {"leovegas1", "nordic1", "unibet1"} : get(match, field, "N/A") # "N/A"

\* truth value of match.get('maps'): [] is falsy
has_maps(match) == "maps" \in DOMAIN match /\ match["maps"] # <<>>

\* count / max(len(list), 1) * 100, rounded down to a whole number: the
\* comparisons with 50 and 30 of the program give the same on the float
percentage(count, list) ==
    (count * 100) \div (IF Len(list) > 1 THEN Len(list) ELSE 1)

\* json.load of the file, or match.get on one of its elements, raises
LoadFails(file) ==
    \/ file.kind = "malformed"
    \/ file.kind = "list" /\ \E i \in DOMAIN file.value : ~isinstance_dict(file.value[i])

\* the upcoming half of check_data_quality for a list
upcoming_health(system_health, list) ==
    LET matches_with_odds == Cardinality({ i \in DOMAIN list : has_odds(list[i]) })
    IN  set(set(set(system_health, "upcoming_matches", Len(list)),
                "matches_with_odds", matches_with_odds),
            "odds_coverage", percentage(matches_with_odds, list))

\* the results half of check_data_quality for a list
results_health(system_health, list) ==
    LET enriched_count == Cardinality({ i \in DOMAIN list : has_maps(list[i]) })
    IN  set(set(set(system_health, "total_results", Len(list)),
                "enriched_results", enriched_count),
            "enrichment_rate", percentage(enriched_count, list))

\* check_data_quality, as [system_health, alerts].  One try holds both
\* halves: an exception in the upcoming half skips the results half.
check_data_quality(system_health, u, r) ==
    LET error == <<Alert("data quality", "Error checking")>>
        upcoming_alerts ==
            IF u.kind # "list" THEN <<>>
            ELSE IF u.value = <<>> THEN <<Alert("upcoming.json", "No upcoming matches found")>>
            ELSE IF upcoming_health(EmptyDict, u.value)["odds_coverage"] < 50
            THEN <<Alert("upcoming.json", "Low odds coverage (<50%)")>>
            ELSE <<>>
        h1 == IF u.kind = "list" THEN upcoming_health(system_health, u.value)
              ELSE system_health
        results_alerts ==
            IF r.kind # "list" THEN <<>>
            ELSE IF results_health(EmptyDict, r.value)["enrichment_rate"] < 30
            THEN <<Alert("results.json", "Low enrichment rate (<30%)")>>
            ELSE <<>>
        h2 == IF r.kind = "list" THEN results_health(h1, r.value) ELSE h1
    IN  IF LoadFails(u) THEN [system_health |-> system_health, alerts |-> error]
        ELSE IF LoadFails(r) THEN [system_health |-> h1, alerts |-> upcoming_alerts \o error]
        ELSE [system_health |-> h2, alerts |-> upcoming_alerts \o results_alerts]

\* services of check_external_dependencies, in order
services == <<"HLTV Main", "HLTV Betting", "HLTV Results">>

\* check_external_dependencies when the services of the set up answer with
\* HTTP 200 and the others do not or cannot be reached, as
\* [system_health, alerts]
check_external_dependencies(system_health, up) ==
    LET RECURSIVE Down(_)
        Down(i) ==
            IF i > Len(services) THEN <<>>
            ELSE (IF services[i] \in up THEN <<>>
                  ELSE <<Alert(services[i], "is not available")>>) \o Down(i + 1)
    IN  [system_health |->
            set(system_health, "external_services",
                [s \in {services[i] : i \in DOMAIN services} |-> [available |-> s \in up]]),
         alerts |-> Down(1)]

\* score of generate_health_score
Score(m) ==
    100 - 20 * Cardinality({ f \in DOMAIN m.data_freshness : m.data_freshness[f].is_stale })
        - (IF get(m.system_health, "odds_coverage", 100) < 50 THEN 15 ELSE 0)
        - (IF get(m.system_health, "enrichment_rate", 100) < 30 THEN 15 ELSE 0)
        - 10 * Cardinality({ s \in DOMAIN get(m.system_health, "external_services", EmptyDict) :
                               ~m.system_health["external_services"][s].available })

\* generate_health_score that stores the score as it is
generate_health_score_unfloored(m) ==
    [system_health |-> set(m.system_health, "overall_score", Score(m)),
     alerts |-> IF Score(m) < 70 THEN <<Alert("System health score", "is low")>> ELSE <<>>]

\* generate_health_score, as [system_health, alerts]: max(0, score) is stored
generate_health_score(m) ==
    [system_health |-> set(m.system_health, "overall_score",
                           IF Score(m) > 0 THEN Score(m) ELSE 0),
     alerts |-> IF Score(m) < 70 THEN <<Alert("System health score", "is low")>> ELSE <<>>]

\* the metrics saved over results.json
save_monitoring_report_results(fs, m, a) == open_w(fs, "results.json", JDict(m))

\* save_monitoring_report: the metrics, and with any alert the alerts and
\* the recommendations (every alert comes with one recommendation, whose
\* lines stand as those of the alerts)
save_monitoring_report(fs, m, a) ==
    LET saved == open_w(fs, "monitoring_metrics.json", JDict(m))
        lines == [kind |-> "lines", value |-> a]
    IN  IF a # <<>>
        THEN open_w(open_w(saved, "monitoring_alerts.txt", lines),
                    "monitoring_recommendations.txt", lines)
        ELSE saved

\* a run that is healthy only above 70
is_healthy_above(health_score) == health_score > 70

\* what run_monitoring returns: "return health_score >= 70"
is_healthy(health_score) == health_score >= 70

(***************************************************************************)
(* Actions: one call of a function of the two scripts.                     *)
(***************************************************************************)
Artifacts == [results |-> results, upcoming |-> upcoming, scrape_state |-> scrape_state]

Ran(name, exc) ==
    /\ op' = name
    /\ prevOp' = op
    /\ pre' = Artifacts
    /\ raised' = exc

\* a call or prompt of a run of a script
Logged(event) == log' = Append(log, event)

\* the files of the working directory by path: the three artifacts and
\* the reports
FileSystem ==
    [p \in {"results.json", "upcoming.json", "scrape_state.json"} \cup DOMAIN reports |->
        IF p \in DOMAIN reports THEN reports[p]
        ELSE FileOf(p, results, upcoming, scrape_state)]

\* the working directory after the writes of a step
Stored(fs) ==
    /\ results' = fs["results.json"]
    /\ upcoming' = fs["upcoming.json"]
    /\ scrape_state' = fs["scrape_state.json"]
    /\ reports' = [p \in DOMAIN fs \ {"results.json", "upcoming.json", "scrape_state.json"}
                      |-> fs[p]]

\* one call of analyze_current_state
AnalyzeCurrentState ==
    /\ pc = "analyze"
    /\ analysis' = analyze_current_state(results, scrape_state)
    /\ Ran("analyze_current_state", FALSE)
    /\ pc' = "done"
    /\ UNCHANGED <<files, diagnosis, auto_fix, choice, backup_dir, log>>

CleanupResultsData ==
    \E out \in {cleanup_results_data(results)} :
        /\ results' = out.file
        /\ Ran("cleanup_results_data", out.raised)
        /\ UNCHANGED <<upcoming, scrape_state, failed_urls, backups, now, diagnosis, run>>

FixDuplicateMatches ==
    \E out \in {fix_duplicate_matches(results)} :
        /\ results' = out.file
        /\ Ran("fix_duplicate_matches", FALSE)
        /\ UNCHANGED <<upcoming, scrape_state, failed_urls, backups, now, diagnosis, run>>

CleanupStateFiles ==
    \E out \in {cleanup_state_files(scrape_state, failed_urls)} :
        /\ scrape_state' = out.state
        /\ failed_urls' = out.failed
        /\ Ran("cleanup_state_files", out.raised)
        /\ UNCHANGED <<results, upcoming, backups, now, diagnosis, run>>

\* the two calls the program makes: reset_offset=True and reset_enriched=True
ResetScrapeState ==
    \E reset_offset \in BOOLEAN :
        \E out \in {reset_scrape_state(scrape_state, reset_offset, ~reset_offset)} :
            /\ scrape_state' = out.file
            /\ Ran(IF reset_offset THEN "reset_scrape_state(reset_offset=True)"
                   ELSE "reset_scrape_state(reset_enriched=True)", FALSE)
            /\ UNCHANGED <<results, upcoming, failed_urls, backups, now, diagnosis, run>>

CreateMissingFiles ==
    \E out \in {create_missing_files(results, upcoming, scrape_state)} :
        /\ results' = out.results
        /\ upcoming' = out.upcoming
        /\ scrape_state' = out.scrape_state
        /\ Ran("create_missing_files", FALSE)
        /\ UNCHANGED <<failed_urls, backups, now, diagnosis, run>>

CleanupUpcomingData ==
    \E out \in {cleanup_upcoming_data(upcoming)} :
        /\ upcoming' = out.file
        /\ Ran("cleanup_upcoming_data", out.raised)
        /\ UNCHANGED <<results, scrape_state, failed_urls, backups, now, diagnosis, run>>

\* one call of backup_current_data
BackupCurrentData ==
    \E fail \in FailPoints(results, upcoming, scrape_state) :
        \E out \in {backup_current_data(backups, now, results, upcoming, scrape_state, fail)} :
            /\ backups' = out.backups
            /\ backup_dir' = out.backup_dir
            /\ Ran("backup_current_data", FALSE)
            /\ UNCHANGED <<results, upcoming, scrape_state, failed_urls, now, diagnosis,
                           pc, auto_fix, choice, analysis, log>>

\* a second goes by: datetime.now() of the next call is later
Tick ==
    /\ now < MaxTime
    /\ now' = now + 1
    /\ UNCHANGED <<results, upcoming, scrape_state, failed_urls, backups,
                   history, run, diagnosis>>

\* what calls records of one call of validate_file: the value returned and
\* how many errors and warnings the call appended
Call(filepath, self, out) ==
    [file |-> filepath, ok |-> out.ok, raised |-> out.raised,
     errors |-> Len(out.self.errors) - Len(self.errors),
     warnings |-> Len(out.self.warnings) - Len(self.warnings)]

\* validate_file('upcoming.json', validate_upcoming_odds) of a new
\* DataValidator
ValidateUpcomingOdds ==
    \E out \in {validate_file(DataValidator, "upcoming.json", upcoming)} :
        /\ validator' = out.self
        /\ calls' = <<Call("upcoming.json", DataValidator, out)>>
        /\ Ran("validate_upcoming_odds", out.raised)
        /\ UNCHANGED <<files, run, metrics, alerts, exit_code, reports>>

(***************************************************************************)
(* Actions: main of validate_data.py, one step per call it makes.  An      *)
(* exception that leaves a call leaves main: the interpreter prints the    *)
(* traceback and the process result is 1.                                  *)
(***************************************************************************)
\* "upcoming_valid = validator.validate_file('upcoming.json', ...)"
ValidateUpcomingFile ==
    /\ pc = "validate_upcoming"
    /\ \E out \in {validate_file(validator, "upcoming.json", upcoming)} :
          /\ validator' = out.self
          /\ calls' = Append(calls, Call("upcoming.json", validator, out))
          /\ Ran("validate_file(upcoming.json)", out.raised)
          /\ pc' = IF out.raised THEN "done" ELSE "validate_results"
          /\ exit_code' = IF out.raised THEN 1 ELSE exit_code
    /\ UNCHANGED <<files, auto_fix, choice, analysis, backup_dir, log, metrics, alerts, reports>>

\* "results_valid = validator.validate_file('results.json', ...)"
ValidateResultsFile ==
    /\ pc = "validate_results"
    /\ \E out \in {validate_file(validator, "results.json", results)} :
          /\ validator' = out.self
          /\ calls' = Append(calls, Call("results.json", validator, out))
          /\ Ran("validate_file(results.json)", out.raised)
          /\ pc' = IF out.raised THEN "done" ELSE "validate_exit"
          /\ exit_code' = IF out.raised THEN 1 ELSE exit_code
    /\ UNCHANGED <<files, auto_fix, choice, analysis, backup_dir, log, metrics, alerts, reports>>

\* the summary is written and printed; "if validator.errors: sys.exit(1)"
ValidateExit ==
    /\ pc = "validate_exit"
    /\ \E fs \in {write_summary(FileSystem, validator)} : Stored(fs)
    /\ exit_code' = IF validator.errors # <<>> THEN 1 ELSE 0
    /\ pc' = "done"
    /\ UNCHANGED <<failed_urls, backups, now, history, auto_fix, choice, analysis,
                   backup_dir, log, validator, calls, metrics, alerts>>

(***************************************************************************)
(* Actions: main of cleanup_data.py, one step per call it makes.  main has *)
(* no try: an exception that leaves a call ends the run with the process   *)
(* result 1.                                                               *)
(***************************************************************************)
\* a call of main that ended with or without an exception
Called(name, exc, next) ==
    /\ Ran(name, exc)
    /\ Logged(name)
    /\ pc' = IF exc THEN "done" ELSE next
    /\ exit_code' = IF exc THEN 1 ELSE exit_code

\* "cleanup_results_data()"
MainCleanupResults ==
    /\ pc = "cleanup_results"
    /\ \E out \in {cleanup_results_data(results)} :
          /\ results' = out.file
          /\ Called("cleanup_results_data", out.raised, "cleanup_upcoming")
    /\ UNCHANGED <<upcoming, scrape_state, failed_urls, backups, now,
                   auto_fix, choice, analysis, backup_dir,
                   validator, calls, metrics, alerts, reports>>

\* "cleanup_upcoming_data()"
MainCleanupUpcoming ==
    /\ pc = "cleanup_upcoming"
    /\ \E out \in {cleanup_upcoming_data(upcoming)} :
          /\ upcoming' = out.file
          /\ Called("cleanup_upcoming_data", out.raised, "cleanup_state")
    /\ UNCHANGED <<results, scrape_state, failed_urls, backups, now,
                   auto_fix, choice, analysis, backup_dir,
                   validator, calls, metrics, alerts, reports>>

\* "cleanup_state_files()"
MainCleanupState ==
    /\ pc = "cleanup_state"
    /\ \E out \in {cleanup_state_files(scrape_state, failed_urls)} :
          /\ scrape_state' = out.state
          /\ failed_urls' = out.failed
          /\ Called("cleanup_state_files", out.raised, "cleanup_report")
    /\ UNCHANGED <<results, upcoming, backups, now,
                   auto_fix, choice, analysis, backup_dir,
                   validator, calls, metrics, alerts, reports>>

\* "report = generate_cleanup_report()" and the summary: the report is
\* written to cleanup_report.json, the artifacts are only read
MainCleanupReport ==
    /\ pc = "cleanup_report"
    /\ Logged("generate_cleanup_report")
    /\ pc' = "done"
    /\ UNCHANGED <<files, history, auto_fix, choice, analysis, backup_dir, diagnosis>>

(***************************************************************************)
(* Actions: main of monitor_system.py, one step per check of               *)
(* run_monitoring.  The ages and sizes of the files and the answers of the *)
(* services are inputs.                                                    *)
(***************************************************************************)
\* a step of run_monitoring that leaves the metrics m and appends alerts
Checked(name, m, appended, next) ==
    /\ metrics' = m
    /\ alerts' = alerts \o appended
    /\ Ran(name, FALSE)
    /\ pc' = next
    /\ UNCHANGED <<files, auto_fix, choice, analysis, backup_dir, log,
                   validator, calls, exit_code, reports>>

\* "self.check_data_freshness()": each existing file is as old as allowed,
\* or an hour older
CheckDataFreshness ==
    /\ pc = "check_data_freshness"
    /\ \E late \in SUBSET Existing(results, upcoming, scrape_state) :
          \E out \in {check_data_freshness(results, upcoming, scrape_state,
                           [f \in Existing(results, upcoming, scrape_state) |->
                              max_age_hours(f) + (IF f \in late THEN 1 ELSE 0)])} :
              Checked("check_data_freshness",
                      [metrics EXCEPT !.data_freshness = out.data_freshness],
                      out.alerts, "check_file_sizes")

\* "self.check_file_sizes()": each existing file has the least expected
\* size, or a byte less
CheckFileSizes ==
    /\ pc = "check_file_sizes"
    /\ \E small \in SUBSET Existing(results, upcoming, scrape_state) :
          \E out \in {check_file_sizes(results, upcoming, scrape_state,
                           [f \in Existing(results, upcoming, scrape_state) |->
                              min_size(f) - (IF f \in small THEN 1 ELSE 0)])} :
              Checked("check_file_sizes",
                      [metrics EXCEPT !.file_sizes = out.file_sizes],
                      out.alerts, "check_data_quality")

\* "self.check_data_quality()"
CheckDataQuality ==
    /\ pc = "check_data_quality"
    /\ \E out \in {check_data_quality(metrics.system_health, upcoming, results)} :
          Checked("check_data_quality",
                  [metrics EXCEPT !.system_health = out.system_health],
                  out.alerts, "check_external_dependencies")

\* "self.check_external_dependencies()"
CheckExternalDependencies ==
    /\ pc = "check_external_dependencies"
    /\ \E up \in SUBSET {services[i] : i \in DOMAIN services} :
          \E out \in {check_external_dependencies(metrics.system_health, up)} :
              Checked("check_external_dependencies",
                      [metrics EXCEPT !.system_health = out.system_health],
                      out.alerts, "generate_health_score")

\* "self.generate_health_score()"
GenerateHealthScore ==
    /\ pc = "generate_health_score"
    /\ \E out \in {generate_health_score(metrics)} :
          Checked("generate_health_score",
                  [metrics EXCEPT !.system_health = out.system_health],
                  out.alerts, "monitor_exit")

\* the report is saved; "return health_score >= 70", and in main
\* "if not is_healthy: exit(1)"
MonitorExit ==
    /\ pc = "monitor_exit"
    /\ \E fs \in {save_monitoring_report(FileSystem, metrics, alerts)} : Stored(fs)
    /\ exit_code' = IF is_healthy(metrics.system_health["overall_score"]) THEN 0 ELSE 1
    /\ pc' = "done"
    /\ UNCHANGED <<failed_urls, backups, now, history, auto_fix, choice, analysis,
                   backup_dir, log, validator, calls, metrics, alerts>>

(***************************************************************************)
(* Actions: main of recovery_helper.py, one step per call it makes.        *)
(***************************************************************************)
\* the options of the menu; "7" stands for every other input
Choices == {"0", "1", "2", "3", "4", "5", "6", "7"}

\* main up to the branch on auto_fix: analyze_current_state
Main ==
    /\ pc = "start"
    /\ \E a \in BOOLEAN :
          /\ auto_fix' = a
          /\ pc' = IF a THEN "auto_create" ELSE "menu"
    /\ analysis' = analyze_current_state(results, scrape_state)
    /\ Logged("analyze_current_state")
    /\ UNCHANGED <<files, diagnosis, history, choice, backup_dir>>

\* "created_files = create_missing_files()"
AutoCreateMissing ==
    /\ pc = "auto_create"
    /\ \E out \in {create_missing_files(results, upcoming, scrape_state)} :
          /\ results' = out.results
          /\ upcoming' = out.upcoming
          /\ scrape_state' = out.scrape_state
    /\ Ran("create_missing_files", FALSE)
    /\ Logged("create_missing_files")
    /\ pc' = "auto_dedup"
    /\ UNCHANGED <<failed_urls, backups, now, diagnosis, auto_fix, choice, analysis, backup_dir>>

\* "if results_info.get('duplicates', 0) > 0: fix_duplicate_matches()"
AutoFixDuplicates ==
    /\ pc = "auto_dedup"
    /\ IF get(analysis.results, "duplicates", 0) > 0
       THEN /\ results' = fix_duplicate_matches(results).file
            /\ Ran("fix_duplicate_matches", FALSE)
            /\ Logged("fix_duplicate_matches")
       ELSE UNCHANGED <<results, history, log>>
    /\ pc' = "auto_offset"
    /\ UNCHANGED <<upcoming, scrape_state, failed_urls, backups, now, diagnosis,
                   auto_fix, choice, analysis, backup_dir>>

\* "if state_info.get('results_offset', 0) > 50000:
\*      reset_scrape_state(reset_offset=True)"
AutoResetOffset ==
    /\ pc = "auto_offset"
    /\ IF get(analysis.state, "results_offset", 0) > OffsetCeiling
       THEN /\ scrape_state' = reset_scrape_state(scrape_state, TRUE, FALSE).file
            /\ Ran("reset_scrape_state(reset_offset=True)", FALSE)
            /\ Logged("reset_scrape_state(reset_offset=True)")
       ELSE UNCHANGED <<scrape_state, history, log>>
    /\ pc' = "done"
    /\ UNCHANGED <<results, upcoming, failed_urls, backups, now, diagnosis,
                   auto_fix, choice, analysis, backup_dir>>

\* "choice = input(...)"; '0' returns
SelectOption ==
    /\ pc = "menu"
    /\ \E c \in Choices :
          /\ choice' = c
          /\ pc' = IF c = "0" THEN "done" ELSE "backup_first"
    /\ Logged("input")
    /\ UNCHANGED <<files, diagnosis, history, auto_fix, analysis, backup_dir>>

\* a call of backup_current_data by main
Backup(next) ==
    \E fail \in FailPoints(results, upcoming, scrape_state) :
        \E out \in {backup_current_data(backups, now, results, upcoming, scrape_state, fail)} :
            /\ backups' = out.backups
            /\ backup_dir' = out.backup_dir
            /\ Ran("backup_current_data", FALSE)
            /\ Logged(IF out.backup_dir.made THEN "backup_current_data"
                      ELSE "backup_current_data: None")
            /\ pc' = next
            /\ UNCHANGED <<results, upcoming, scrape_state, failed_urls, now, diagnosis,
                           auto_fix, choice, analysis>>

Skip(next) ==
    /\ pc' = next
    /\ UNCHANGED <<files, diagnosis, history, auto_fix, choice, analysis, backup_dir, log>>

\* "if choice in ['2', '3', '4', '6']: backup_dir = backup_current_data()";
\* a failed backup prints a warning and main goes on
BackupFirst ==
    /\ pc = "backup_first"
    /\ IF choice \in {"2", "3", "4", "6"} THEN Backup("create") ELSE Skip("create")

\* "if choice == '1' or choice == '6': create_missing_files()"
CreateMissing ==
    /\ pc = "create"
    /\ IF choice \in {"1", "6"}
       THEN /\ \E out \in {create_missing_files(results, upcoming, scrape_state)} :
                  /\ results' = out.results
                  /\ upcoming' = out.upcoming
                  /\ scrape_state' = out.scrape_state
            /\ Ran("create_missing_files", FALSE)
            /\ Logged("create_missing_files")
            /\ pc' = "dedup"
            /\ UNCHANGED <<failed_urls, backups, now, diagnosis, auto_fix, choice, analysis, backup_dir>>
       ELSE Skip("dedup")

\* "if choice == '2' or choice == '6': fix_duplicate_matches()"
FixDuplicates ==
    /\ pc = "dedup"
    /\ IF choice \in {"2", "6"}
       THEN /\ results' = fix_duplicate_matches(results).file
            /\ Ran("fix_duplicate_matches", FALSE)
            /\ Logged("fix_duplicate_matches")
            /\ pc' = "offset"
            /\ UNCHANGED <<upcoming, scrape_state, failed_urls, backups, now, diagnosis,
                           auto_fix, choice, analysis, backup_dir>>
       ELSE Skip("offset")

\* "if choice == '3' or choice == '6': reset_scrape_state(reset_offset=True)"
ResetOffset ==
    /\ pc = "offset"
    /\ IF choice \in {"3", "6"}
       THEN /\ scrape_state' = reset_scrape_state(scrape_state, TRUE, FALSE).file
            /\ Ran("reset_scrape_state(reset_offset=True)", FALSE)
            /\ Logged("reset_scrape_state(reset_offset=True)")
            /\ pc' = "enriched"
            /\ UNCHANGED <<results, upcoming, failed_urls, backups, now, diagnosis,
                           auto_fix, choice, analysis, backup_dir>>
       ELSE Skip("enriched")

\* "if choice == '4' or choice == '6': reset_scrape_state(reset_enriched=True)"
ResetEnrichment ==
    /\ pc = "enriched"
    /\ IF choice \in {"4", "6"}
       THEN /\ scrape_state' = reset_scrape_state(scrape_state, FALSE, TRUE).file
            /\ Ran("reset_scrape_state(reset_enriched=True)", FALSE)
            /\ Logged("reset_scrape_state(reset_enriched=True)")
            /\ pc' = "backup_only"
            /\ UNCHANGED <<results, upcoming, failed_urls, backups, now, diagnosis,
                           auto_fix, choice, analysis, backup_dir>>
       ELSE Skip("backup_only")

\* "if choice == '5': backup_dir = backup_current_data()"
BackupOnly ==
    /\ pc = "backup_only"
    /\ IF choice = "5" THEN Backup("done") ELSE Skip("done")

\* the runs of main so far: each starts with analyze_current_state
Runs == Cardinality({ i \in DOMAIN log : log[i] = "analyze_current_state" })

\* the script is started again after a run with --auto-fix has returned
MainAgain ==
    /\ pc = "done"
    /\ auto_fix
    /\ Runs < MaxRuns
    /\ pc' = "start"
    /\ UNCHANGED <<files, diagnosis, history, auto_fix, choice, analysis, backup_dir, log>>

(***************************************************************************)
(* Specifications.                                                         *)
(***************************************************************************)
\* no run of main: the functions are called one by one
NoRun ==
    /\ pc = "none"
    /\ auto_fix = FALSE
    /\ choice = ""
    /\ analysis = analyze_current_state(results, scrape_state)
    /\ backup_dir = NoDir
    /\ log = <<>>

\* no validator and no monitor has run
NoDiagnosis ==
    /\ validator = DataValidator
    /\ calls = <<>>
    /\ metrics = SystemMonitor
    /\ alerts = <<>>
    /\ exit_code = 0
    /\ reports = EmptyDict

NoHistory ==
    /\ op = "none"
    /\ prevOp = "none"
    /\ pre = Artifacts
    /\ raised = FALSE

\* a results.json whose top-level value is an object
ResultsObject == JDict([k \in {"error"} |-> "not found"])

\* the Deduplicator on every results.json of at most MaxLen records
ResultsFiles ==
    {Missing, Malformed, JDict(EmptyDict), ResultsObject}
    \cup { JList(l) : l \in SeqsUpTo(MatchResults, MaxLen) }

InitResults ==
    /\ results \in ResultsFiles
    /\ upcoming = Missing
    /\ scrape_state = Missing
    /\ failed_urls = Missing
    /\ backups = EmptyDict
    /\ now = 0
    /\ NoHistory
    /\ NoRun
    /\ NoDiagnosis

NextResults == CleanupResultsData \/ FixDuplicateMatches

SpecResults == InitResults /\ [][NextResults]_vars

\* the StateReconciler, the state reset and create_missing_files on every
\* scrape_state.json of at most MaxKeys enriched ids
StateFiles ==
    {Missing, Malformed, JList(<<>>)} \cup { JDict(d) : d \in ScrapeStates(MaxKeys) }

FailedUrlsFiles == {Missing} \cup { Lines([i \in 1..n |-> i]) : n \in 0..MaxLines }

InitState ==
    /\ results \in {Missing, Malformed, JList(<<>>)}
    /\ upcoming \in {Missing, JList(<<[team1 |-> "A", team2 |-> "B", href |-> "/matches/1"]>>)}
    /\ scrape_state \in StateFiles
    /\ failed_urls \in FailedUrlsFiles
    /\ backups = EmptyDict
    /\ now = 0
    /\ NoHistory
    /\ NoRun
    /\ NoDiagnosis

NextState == CleanupStateFiles \/ ResetScrapeState \/ CreateMissingFiles

SpecState == InitState /\ [][NextState]_vars

\* one run of the recovery helper, from every results.json of at most
\* RecoveryLen records without date (no step of main reads the date) and
\* every scrape_state.json of at most one enriched id
RecoveryRecords == { r \in MatchResults : "date" \notin DOMAIN r }

RecoveryResults ==
    {Missing, Malformed, ResultsObject}
    \cup { JList(l) : l \in SeqsUpTo(RecoveryRecords, RecoveryLen) }

RecoveryStates ==
    {Missing, Malformed, JList(<<>>)}
    \cup { JDict(d) : d \in { e \in ScrapeStates(1) :
                "enriched_match_ids" \in DOMAIN e
                    => DOMAIN e["enriched_match_ids"] \subseteq {"2"} } }

InitRecovery ==
    /\ results \in RecoveryResults
    /\ upcoming \in {Missing, JList(<<>>)}
    /\ scrape_state \in RecoveryStates
    /\ failed_urls = Missing
    /\ backups = EmptyDict
    /\ now = 0
    /\ NoHistory
    /\ pc = "start"
    /\ auto_fix = FALSE
    /\ choice = ""
    /\ analysis = [results |-> EmptyDict, state |-> EmptyDict]
    /\ backup_dir = NoDir
    /\ log = <<>>
    /\ NoDiagnosis

NextRecovery ==
    \/ Main
    \/ AutoCreateMissing
    \/ AutoFixDuplicates
    \/ AutoResetOffset
    \/ SelectOption
    \/ BackupFirst
    \/ CreateMissing
    \/ FixDuplicates
    \/ ResetOffset
    \/ ResetEnrichment
    \/ BackupOnly

SpecRecovery == InitRecovery /\ [][NextRecovery]_vars

\* snapshots and repairs called one by one, within a second and over
\* MaxTime seconds
SnapshotResults ==
    {Missing, Malformed, JList(<<>>),
     JList(<<[k \in {"match-id"} |-> 1], [k \in {"match-id"} |-> 1]>>)}

SnapshotStates ==
    {Missing, JDict([k \in {"results_offset"} |-> OffsetCeiling + 1])}

InitSnapshot ==
    /\ results \in SnapshotResults
    /\ upcoming \in {Missing, JList(<<>>)}
    /\ scrape_state \in SnapshotStates
    /\ failed_urls = Missing
    /\ backups = EmptyDict
    /\ now = 0
    /\ NoHistory
    /\ pc = "none"
    /\ auto_fix = FALSE
    /\ choice = ""
    /\ analysis = [results |-> EmptyDict, state |-> EmptyDict]
    /\ backup_dir = NoDir
    /\ log = <<>>
    /\ NoDiagnosis

NextSnapshot ==
    \/ BackupCurrentData
    \/ Tick
    \/ FixDuplicateMatches
    \/ ResetScrapeState
    \/ CreateMissingFiles

SpecSnapshot == InitSnapshot /\ [][NextSnapshot]_vars

\* runs of recovery_helper.py with --auto-fix, one after the other
NextAutoFix ==
    \/ Main
    \/ AutoCreateMissing
    \/ AutoFixDuplicates
    \/ AutoResetOffset
    \/ MainAgain

SpecAutoFix == InitRecovery /\ [][NextAutoFix]_vars

\* the four recovery actions, called one by one in any order, on the files
\* a run of the recovery helper starts from
InitActions ==
    /\ results \in RecoveryResults
    /\ upcoming \in {Missing, JList(<<>>)}
    /\ scrape_state \in RecoveryStates
    /\ failed_urls = Missing
    /\ backups = EmptyDict
    /\ now = 0
    /\ NoHistory
    /\ NoRun
    /\ NoDiagnosis

NextActions == FixDuplicateMatches \/ ResetScrapeState \/ CreateMissingFiles

SpecActions == InitActions /\ [][NextActions]_vars

\* the validator and the cleanup on every upcoming.json of at most
\* MaxUpcoming entries
UpcomingFiles ==
    {Missing, Malformed, ResultsObject}
    \cup { JList(l) : l \in SeqsUpTo(UpcomingMatches, MaxUpcoming) }

InitUpcoming ==
    /\ results = Missing
    /\ upcoming \in UpcomingFiles
    /\ scrape_state = Missing
    /\ failed_urls = Missing
    /\ backups = EmptyDict
    /\ now = 0
    /\ NoHistory
    /\ NoRun
    /\ NoDiagnosis

NextUpcoming == ValidateUpcomingOdds \/ CleanupUpcomingData

SpecUpcoming == InitUpcoming /\ [][NextUpcoming]_vars

\* one run of validate_data.py, from every upcoming.json and results.json
\* of at most ValidateLen records: of upcoming.json an entry without
\* fault, one with an error, one with warnings, one with a href that is no
\* string and one that is no mapping
ValidateUpcoming ==
    {Missing, Malformed, ResultsObject}
    \cup { JList(l) : l \in SeqsUpTo({[team1 |-> "A", team2 |-> "B", href |-> "/matches/1"],
                                        [team1 |-> "A", team2 |-> "A", href |-> "/matches/1"],
                                        [team1 |-> "", team2 |-> "B", href |-> "hltv.org/1"],
                                        [team1 |-> "A", team2 |-> "B", href |-> NonString],
                                        NonMapping}, ValidateLen) }

ValidateResults ==
    {Missing, Malformed, ResultsObject}
    \cup { JList(l) : l \in SeqsUpTo(ValidatedResults, ValidateLen) }

InitValidate ==
    /\ results \in ValidateResults
    /\ upcoming \in ValidateUpcoming
    /\ scrape_state = Missing
    /\ failed_urls = Missing
    /\ backups = EmptyDict
    /\ now = 0
    /\ NoHistory
    /\ pc = "validate_upcoming"
    /\ auto_fix = FALSE
    /\ choice = ""
    /\ analysis = [results |-> EmptyDict, state |-> EmptyDict]
    /\ backup_dir = NoDir
    /\ log = <<>>
    /\ NoDiagnosis

NextValidate == ValidateUpcomingFile \/ ValidateResultsFile \/ ValidateExit

SpecValidate == InitValidate /\ [][NextValidate]_vars

\* one run of monitor_system.py, from every upcoming.json and results.json
\* of at most MonitorLen records, with and without odds, with maps and
\* with a format only
MonitorUpcoming ==
    {Missing, Malformed, ResultsObject, JList(<<NonMapping>>)}
    \cup { JList(l) : l \in SeqsUpTo({ [team1 |-> "A", team2 |-> "B", href |-> "/matches/1",
                                          leovegas1 |-> o] : o \in {"N/A", "1.85"} },
                                       MonitorLen) }

MonitorResults ==
    {Missing, Malformed, ResultsObject, JList(<<NonMapping>>)}
    \cup { JList(l) : l \in SeqsUpTo({[k \in {"match-id", "maps"} |->
                                            IF k = "match-id" THEN 1 ELSE <<[map |-> "Mirage"]>>],
                                        [k \in {"match-id", "format"} |->
                                            IF k = "match-id" THEN 2 ELSE "bo3"]},
                                       MonitorLen) }

InitMonitor ==
    /\ results \in MonitorResults
    /\ upcoming \in MonitorUpcoming
    /\ scrape_state \in {Missing, DefaultState}
    /\ failed_urls = Missing
    /\ backups = EmptyDict
    /\ now = 0
    /\ NoHistory
    /\ pc = "check_data_freshness"
    /\ auto_fix = FALSE
    /\ choice = ""
    /\ analysis = [results |-> EmptyDict, state |-> EmptyDict]
    /\ backup_dir = NoDir
    /\ log = <<>>
    /\ NoDiagnosis

NextMonitor ==
    \/ CheckDataFreshness
    \/ CheckFileSizes
    \/ CheckDataQuality
    \/ CheckExternalDependencies
    \/ GenerateHealthScore
    \/ MonitorExit

SpecMonitor == InitMonitor /\ [][NextMonitor]_vars

\* one run of cleanup_data.py, from every results.json and upcoming.json
\* of at most CleanupLen records
CleanupResults ==
    {Missing, Malformed, ResultsObject}
    \cup { JList(l) : l \in SeqsUpTo({ r \in RecoveryRecords : Truthy(r, "match-id") },
                                       CleanupLen) }

CleanupUpcoming ==
    {Missing, Malformed, ResultsObject}
    \cup { JList(l) : l \in SeqsUpTo({[team1 |-> "A", team2 |-> "B", href |-> "/matches/1"],
                                        [team1 |-> "A", team2 |-> "A", href |-> "/matches/1"],
                                        NonMapping}, CleanupLen) }

CleanupStates ==
    {Missing, Malformed, JList(<<>>), DefaultState,
     JDict([k \in {"results_offset"} |-> OffsetCeiling + 1])}

InitCleanup ==
    /\ results \in CleanupResults
    /\ upcoming \in CleanupUpcoming
    /\ scrape_state \in CleanupStates
    /\ failed_urls \in FailedUrlsFiles
    /\ backups = EmptyDict
    /\ now = 0
    /\ NoHistory
    /\ pc = "cleanup_results"
    /\ auto_fix = FALSE
    /\ choice = ""
    /\ analysis = [results |-> EmptyDict, state |-> EmptyDict]
    /\ backup_dir = NoDir
    /\ log = <<>>
    /\ NoDiagnosis

NextCleanup ==
    \/ MainCleanupResults
    \/ MainCleanupUpcoming
    \/ MainCleanupState
    \/ MainCleanupReport

SpecCleanup == InitCleanup /\ [][NextCleanup]_vars

\* a validation run, an analysis or a monitoring run, from artifacts that
\* are missing, unparseable, empty or hold one record
DiagnosedResults ==
    {Missing, Malformed, JList(<<>>),
     JList(<<[k \in {"match-id", "maps"} |->
                IF k = "match-id" THEN 1 ELSE <<[map |-> "Mirage"]>>]>>)}

DiagnosedUpcoming ==
    {Missing, Malformed, JList(<<>>),
     JList(<<[team1 |-> "A", team2 |-> "B", href |-> "/matches/1"]>>)}

DiagnosedStates == {Missing, Malformed, JDict(DefaultState)}

InitDiagnosis ==
    /\ results \in DiagnosedResults
    /\ upcoming \in DiagnosedUpcoming
    /\ scrape_state \in DiagnosedStates
    /\ failed_urls = Missing
    /\ backups = EmptyDict
    /\ now = 0
    /\ NoHistory
    /\ pc \in {"validate_upcoming", "analyze", "check_data_freshness"}
    /\ auto_fix = FALSE
    /\ choice = ""
    /\ analysis = [results |-> EmptyDict, state |-> EmptyDict]
    /\ backup_dir = NoDir
    /\ log = <<>>
    /\ NoDiagnosis

NextDiagnosis ==
    \/ ValidateUpcomingFile
    \/ ValidateResultsFile
    \/ ValidateExit
    \/ AnalyzeCurrentState
    \/ CheckDataFreshness
    \/ CheckFileSizes
    \/ CheckDataQuality
    \/ CheckExternalDependencies
    \/ GenerateHealthScore
    \/ MonitorExit

SpecDiagnosis == InitDiagnosis /\ [][NextDiagnosis]_vars

(***************************************************************************)
(* Claims about the Deduplicator (SpecResults).                            *)
(***************************************************************************)
\* the function that ran last wrote results.json as a list
WroteResults(name) == op = name /\ ~raised /\ results.kind = "list" /\ results.value # <<>>

HasId(r) == "match-id" \in DOMAIN r
HasDate(r) == "date" \in DOMAIN r

\* C1: running cleanup_results_data on the collection it just wrote gives
\* the same sequence of records: a second run in a row leaves results.json
\* as the first run wrote it.
C1_CleanupIdempotent ==
    (op = "cleanup_results_data" /\ prevOp = "cleanup_results_data")
        => results = pre.results

\* a second run in a row over a written collection that holds two different
\* records with the same date and no truthy match-id (a tie of the sort)
C1_Witness ==
    /\ op = "cleanup_results_data" /\ prevOp = "cleanup_results_data"
    /\ results.kind = "list" /\ Len(results.value) = ResultsCap
    /\ \E i \in 1..(Len(results.value) - 1) :
          /\ results.value[i] # results.value[i + 1]
          /\ ~HasDate(results.value[i]) /\ ~HasDate(results.value[i + 1])
          /\ ~HasId(results.value[i]) /\ HasId(results.value[i + 1])
          /\ results.value[i + 1]["match-id"] = 0

\* C2: in the results.json written by cleanup_results_data or
\* fix_duplicate_matches no two records that carry a match-id share its
\* value, whatever the value (0 included).
C2_UniqueMatchIds ==
    (WroteResults("cleanup_results_data") \/ WroteResults("fix_duplicate_matches"))
        => \A i, j \in 1..Len(results.value) :
              (i # j /\ HasId(results.value[i]) /\ HasId(results.value[j]))
                  => results.value[i]["match-id"] # results.value[j]["match-id"]

\* the date a record is ordered by: '1900-01-01' when it has none
C3_Date(r) == IF HasDate(r) THEN r["date"] ELSE "1900-01-01"

C4_Survivors(list) ==
    { i \in 1..Len(list) :
        ~Truthy(list[i], "match-id")
        \/ \A j \in 1..(i - 1) : ~(HasId(list[j]) /\ list[j]["match-id"] = list[i]["match-id"]) }

\* how often record r is among the elements idx of a list
C4_Count(list, idx, r) == Cardinality({ i \in idx : list[i] = r })

\* C4: cleanup_results_data writes at most ResultsCap records; when more
\* survive deduplication it writes exactly ResultsCap, and no surviving
\* record it dropped is dated later than a record it kept.
C4_Cap ==
    WroteResults("cleanup_results_data")
        => LET input == pre.results.value
               surv == C4_Survivors(input)
               kept == results.value
               dropped == { i \in surv :
                              C4_Count(input, surv, input[i])
                                  > C4_Count(kept, 1..Len(kept), input[i]) }
           IN  /\ Len(kept) <= ResultsCap
               /\ Cardinality(surv) > ResultsCap => Len(kept) = ResultsCap
               /\ Cardinality(surv) <= ResultsCap => Len(kept) = Cardinality(surv)
               /\ \A i \in dropped : \A k \in 1..Len(kept) :
                     DateRank(C3_Date(input[i])) <= DateRank(C3_Date(kept[k]))

\* more than ResultsCap records survived, and the one dropped is older than
\* the ones kept
C4_Witness ==
    /\ WroteResults("cleanup_results_data")
    /\ Cardinality(C4_Survivors(pre.results.value)) > ResultsCap
    /\ Len(results.value) = ResultsCap
    /\ \E i \in 1..Len(pre.results.value) :
          /\ HasDate(pre.results.value[i])
          /\ \A k \in 1..Len(results.value) :
                /\ HasDate(results.value[k])
                /\ DateRank(pre.results.value[i]["date"]) < DateRank(results.value[k]["date"])

(***************************************************************************)
(* Claims about the StateReconciler and the state reset (SpecState).       *)
(***************************************************************************)
\* cleanup_state_files ran last and rewrote a scrape_state.json that held
\* an object
Reconciled ==
    op = "cleanup_state_files" /\ ~raised /\ pre.scrape_state.kind = "dict"

\* C5: after cleanup_state_files results_offset is at most 50000: an offset
\* above 50000 is written as 0, an offset of at most 50000 (50000 included)
\* is written as it was.
C5_OffsetBound ==
    Reconciled
        => LET old == pre.scrape_state.value
               new == scrape_state.value
           IN  /\ scrape_state.kind = "dict"
               /\ "results_offset" \in DOMAIN new => new["results_offset"] <= 50000
               /\ "results_offset" \in DOMAIN old =>
                     /\ "results_offset" \in DOMAIN new
                     /\ old["results_offset"] > 50000 => new["results_offset"] = 0
                     /\ old["results_offset"] <= 50000
                           => new["results_offset"] = old["results_offset"]

\* an offset of exactly 50000 was written back
C5_Witness ==
    /\ Reconciled
    /\ "results_offset" \in DOMAIN pre.scrape_state.value
    /\ pre.scrape_state.value["results_offset"] = 50000
    /\ scrape_state.value["results_offset"] = 50000

\* enriched_match_ids of a state object, {} when it has none
C6_Enriched(state) ==
    IF "enriched_match_ids" \in DOMAIN state THEN state["enriched_match_ids"]
    ELSE [k \in {} |-> 0]

C7_RequiredFields ==
    (/\ op \in {"cleanup_state_files", "reset_scrape_state(reset_offset=True)",
                "reset_scrape_state(reset_enriched=True)"}
     /\ ~raised
     /\ scrape_state.kind = "dict")
        => LET old == IF pre.scrape_state.kind = "dict" THEN pre.scrape_state.value
                      ELSE [k \in {} |-> 0]
               new == scrape_state.value
           IN  /\ "results_offset" \in DOMAIN new
               /\ "enriched_match_ids" \in DOMAIN new
               /\ "results_offset" \notin DOMAIN old => new["results_offset"] = 0
               /\ "enriched_match_ids" \notin DOMAIN old
                     => new["enriched_match_ids"] = [k \in {} |-> 0]

\* C10: create_missing_files gives each missing artifact its default
\* content and leaves each existing one (empty, unparseable or with other
\* content) as it is, so a second call in a row changes nothing.
C10_CreateMissingFiles ==
    op = "create_missing_files"
        => /\ results = IF pre.results.kind = "missing"
                        THEN [kind |-> "list", value |-> <<>>] ELSE pre.results
           /\ upcoming = IF pre.upcoming.kind = "missing"
                         THEN [kind |-> "list", value |-> <<>>] ELSE pre.upcoming
           /\ scrape_state = IF pre.scrape_state.kind = "missing"
                             THEN [kind |-> "dict",
                                   value |-> [results_offset |-> 0,
                                              enriched_match_ids |-> [k \in {} |-> 0]]]
                             ELSE pre.scrape_state
           /\ prevOp = "create_missing_files" => Artifacts = pre

\* a second call in a row, with the unparseable results.json still as it
\* was and the scrape_state.json the first call created
C10_Witness ==
    /\ op = "create_missing_files" /\ prevOp = "create_missing_files"
    /\ results.kind = "malformed"
    /\ upcoming.kind = "list" /\ upcoming.value # <<>>
    /\ scrape_state = DefaultState

(***************************************************************************)
(* Claims about a run of the recovery helper (SpecRecovery).               *)
(***************************************************************************)
\* the calls that rewrite an artifact
Destructive ==
    {"fix_duplicate_matches", "reset_scrape_state(reset_offset=True)",
     "reset_scrape_state(reset_enriched=True)"}

\* the calls of backup_current_data, by outcome
Snapshot == {"backup_current_data", "backup_current_data: None"}

\* C8: in every run, with --auto-fix or not, each call of
\* fix_duplicate_matches or reset_scrape_state comes after a call of
\* backup_current_data of the same run.
C8_SnapshotFirst ==
    \A i \in DOMAIN log :
        log[i] \in Destructive => \E j \in 1..(i - 1) : log[j] \in Snapshot

\* C9: after backup_current_data returned None, fix_duplicate_matches or
\* reset_scrape_state rewrites an artifact only once the user has been
\* asked again, and not at all with --auto-fix.
C9_FailedSnapshotNeedsConfirmation ==
    \A i \in DOMAIN log :
        (/\ log[i] = "backup_current_data: None"
         /\ i < Len(log)
         /\ log[Len(log)] \in Destructive
         /\ op = log[Len(log)]
         /\ Artifacts # pre)
            => /\ ~auto_fix
               /\ \E k \in (i + 1)..(Len(log) - 1) : log[k] = "input"

(***************************************************************************)
(* Claims about the recovery actions called one by one (SpecActions).      *)
(***************************************************************************)
\* C11: each of fix_duplicate_matches, reset_scrape_state(reset_offset=True),
\* reset_scrape_state(reset_enriched=True) and create_missing_files, called
\* a second time in a row, leaves results.json, upcoming.json and
\* scrape_state.json as the first call left them.
C11_ActionsIdempotent ==
    (/\ op = prevOp
     /\ op \in {"fix_duplicate_matches", "reset_scrape_state(reset_offset=True)",
                "reset_scrape_state(reset_enriched=True)", "create_missing_files"})
        => Artifacts = pre

\* fix_duplicate_matches twice in a row over two different records that tie
\* in its sort (no match-id, and match-id 0)
C11_Witness ==
    /\ op = "fix_duplicate_matches" /\ prevOp = "fix_duplicate_matches"
    /\ results.kind = "list" /\ Len(results.value) = 2
    /\ ~HasId(results.value[1])
    /\ HasId(results.value[2]) /\ results.value[2]["match-id"] = 0

(***************************************************************************)
(* Claims about the repair of a file that cannot be used (SpecResults).    *)
(***************************************************************************)
\* a file that is no valid JSON, or whose top-level value is not of the
\* expected kind
C18_Invalid(file, kind) == file.kind # "missing" /\ file.kind # kind

\* C18: cleanup_results_data and fix_duplicate_matches leave a results.json
\* that is no valid JSON or no list as it is, cleanup_state_files and
\* reset_scrape_state leave a scrape_state.json that is no valid JSON or no
\* object as it is, and each reports the error: it logs one, returns False
\* or ends with an exception.
C18_InvalidNeverWritten ==
    /\ (op = "cleanup_results_data" /\ C18_Invalid(pre.results, "list"))
          => /\ results = pre.results
             /\ raised \/ load_json_safe_error(pre.results)
    /\ (op = "fix_duplicate_matches" /\ C18_Invalid(pre.results, "list"))
          => /\ results = pre.results
             /\ ~fix_duplicate_matches(pre.results).ok
    /\ (op = "cleanup_state_files" /\ C18_Invalid(pre.scrape_state, "dict"))
          => /\ scrape_state = pre.scrape_state
             /\ raised \/ load_json_safe_error(pre.scrape_state)
    /\ (op = "reset_scrape_state(reset_offset=True)" /\ C18_Invalid(pre.scrape_state, "dict"))
          => /\ scrape_state = pre.scrape_state
             /\ ~reset_scrape_state(pre.scrape_state, TRUE, FALSE).ok
    /\ (op = "reset_scrape_state(reset_enriched=True)" /\ C18_Invalid(pre.scrape_state, "dict"))
          => /\ scrape_state = pre.scrape_state
             /\ ~reset_scrape_state(pre.scrape_state, FALSE, TRUE).ok

(***************************************************************************)
(* Claims about a run of cleanup_data.py (SpecCleanup).                    *)
(***************************************************************************)
\* C19: a run of cleanup_data.py that has ended has attempted the repair
\* of each artifact, whatever failed on the way: cleanup_results_data,
\* cleanup_upcoming_data and cleanup_state_files were all called, and
\* failed_urls.json was trimmed.
C19_RepairsIndependent ==
    (pc = "done" /\ log # <<>> /\ log[1] = "cleanup_results_data")
        => /\ \A name \in {"cleanup_results_data", "cleanup_upcoming_data",
                            "cleanup_state_files"} :
                 \E i \in DOMAIN log : log[i] = name
           /\ failed_urls.kind = "lines" => Len(failed_urls.value) <= FailedCap

(***************************************************************************)
(* Claims about the validator and the cleanup of upcoming.json             *)
(* (SpecUpcoming) and about a run of validate_data.py (SpecValidate).      *)
(***************************************************************************)
\* an entry with the same non-empty name for both teams and a well-formed
\* href
C12_SameTeams(match) ==
    /\ {"team1", "team2", "href"} \subseteq DOMAIN match
    /\ match["team1"] # ""
    /\ match["team1"] = match["team2"]
    /\ match["href"] = "/matches/1"

\* C12: for every entry of upcoming.json with equal non-empty team names
\* and a well-formed href, validate_upcoming_odds records exactly one error
\* for the entry, "team1 and team2 cannot be the same", and after
\* cleanup_upcoming_data the entry is not in upcoming.json.
C12_SameTeamsRejected ==
    /\ (op = "validate_upcoming_odds" /\ upcoming.kind = "list")
          => \A i \in 1..Len(upcoming.value) :
                C12_SameTeams(upcoming.value[i])
                    => \E k \in DOMAIN validator.errors :
                          /\ validator.errors[k].index = i - 1
                          /\ validator.errors[k].text = "team1 and team2 cannot be the same"
                          /\ \A j \in DOMAIN validator.errors :
                                validator.errors[j].index = i - 1 => j = k
    /\ (op = "cleanup_upcoming_data" /\ upcoming.kind = "list")
          => \A i \in 1..Len(upcoming.value) : ~C12_SameTeams(upcoming.value[i])

\* C13: validate_file returns False for a collection exactly when the call
\* recorded at least one error for it, whatever the same DataValidator
\* validated before.
C13_OkIffNoErrors ==
    \A k \in DOMAIN calls :
        ~calls[k].raised => (calls[k].ok = FALSE <=> calls[k].errors > 0)

\* C14: a run of validate_data.py ends with a nonzero process result
\* exactly when the validator recorded at least one error.
C14_ExitCode ==
    (pc = "done" /\ calls # <<>>)
        => (exit_code # 0 <=> validator.errors # <<>>)

\* the errors validate_file owes the record of index i of a collection
C20_Errors(filepath, list, i) ==
    IF filepath = "upcoming.json" THEN CheckUpcoming(list[i], i - 1).errors
    ELSE CheckResult(list[i], i - 1,
                     { list[j]["match-id"] :
                         j \in { n \in 1..(i - 1) : isinstance_dict(list[n])
                                                      /\ Truthy(list[n], "match-id") } }).errors

\* C20: once validate_file has gone through a collection, the errors of
\* every record of the collection are among the errors of the validator,
\* whatever the records before it hold.
C20_ErrorsAccumulate ==
    \A k \in DOMAIN calls :
        LET file == IF calls[k].file = "upcoming.json" THEN upcoming ELSE results
        IN  file.kind = "list"
                => \A i \in 1..Len(file.value) :
                      LET owed == C20_Errors(calls[k].file, file.value, i)
                      IN  \A e \in DOMAIN owed :
                             \E j \in DOMAIN validator.errors : validator.errors[j] = owed[e]

(***************************************************************************)
(* Claims about a run of monitor_system.py (SpecMonitor).                  *)
(***************************************************************************)
\* the penalties of a report: 20 per stale file, 15 for an odds coverage
\* below 50, 15 for an enrichment rate below 30, 10 per service that is not
\* available
C15_Penalties ==
    LET health == metrics.system_health
    IN  20 * Cardinality({ f \in DOMAIN metrics.data_freshness :
                             metrics.data_freshness[f].is_stale })
        + (IF "odds_coverage" \in DOMAIN health /\ health["odds_coverage"] < 50
           THEN 15 ELSE 0)
        + (IF "enrichment_rate" \in DOMAIN health /\ health["enrichment_rate"] < 30
           THEN 15 ELSE 0)
        + 10 * Cardinality({ s \in DOMAIN health["external_services"] :
                               ~health["external_services"][s].available })

\* C15: the health score of the report is 100 less the penalties and at
\* least 0, so it is between 0 and 100.
C15_HealthScore ==
    "overall_score" \in DOMAIN metrics.system_health
        => /\ metrics.system_health["overall_score"]
                 = (IF C15_Penalties < 100 THEN 100 - C15_Penalties ELSE 0)
           /\ metrics.system_health["overall_score"] \in 0..100

\* penalties of more than 100, and the score 0
C15_Witness ==
    /\ "overall_score" \in DOMAIN metrics.system_health
    /\ C15_Penalties > 100
    /\ metrics.system_health["overall_score"] = 0

\* C16: a run of monitor_system.py ends with a nonzero process result
\* exactly when the health score of the report is below 70.
C16_ExitCode ==
    (pc = "done" /\ "overall_score" \in DOMAIN metrics.system_health)
        => (exit_code # 0 <=> metrics.system_health["overall_score"] < 70)

\* a run that ended with the score 70 and the process result 0
C16_Witness ==
    /\ pc = "done"
    /\ "overall_score" \in DOMAIN metrics.system_health
    /\ metrics.system_health["overall_score"] = 70
    /\ exit_code = 0

\* a file that holds a list of mappings
C17_Readable(file) ==
    file.kind = "list" /\ \A i \in DOMAIN file.value : file.value[i] # NonMapping

\* C17: after check_data_quality the metrics of each of results.json and
\* upcoming.json that can be read are in the report, whatever the state of
\* the other file.
C17_IndependentChecks ==
    pc \in {"check_external_dependencies", "generate_health_score", "monitor_exit", "done"}
        => /\ C17_Readable(results)
                 => {"total_results", "enriched_results", "enrichment_rate"}
                        \subseteq DOMAIN metrics.system_health
           /\ C17_Readable(upcoming)
                 => {"upcoming_matches", "matches_with_odds", "odds_coverage"}
                        \subseteq DOMAIN metrics.system_health

(***************************************************************************)
(* Claims about the cleanup of upcoming.json alone (SpecUpcoming).         *)
(***************************************************************************)
\* an entry with a team1, a team2 and a href that are not empty, and two
\* different teams
C21_Valid(match) ==
    /\ {"team1", "team2", "href"} \subseteq DOMAIN match
    /\ match["team1"] # ""
    /\ match["team2"] # ""
    /\ match["href"] # ""
    /\ match["team1"] # match["team2"]

\* the indices of the valid entries of a list that no valid entry with the
\* same href precedes
C21_Kept(list) ==
    { j \in 1..Len(list) :
        /\ C21_Valid(list[j])
        /\ \A k \in 1..(j - 1) :
              C21_Valid(list[k]) => list[k]["href"] # list[j]["href"] }

\* cleanup_upcoming_data has just written upcoming.json
C21_Wrote ==
    /\ op = "cleanup_upcoming_data"
    /\ ~raised
    /\ pre.upcoming.kind = "list"
    /\ pre.upcoming.value # <<>>

\* C21: after cleanup_upcoming_data has written upcoming.json, every entry
\* has a team1, a team2 and a href that are not empty and two different
\* teams, no two entries have the same href, and the entries are those of
\* the input that are valid and the first of their href among the valid
\* ones, in the order of the input.
C21_UpcomingCleaned ==
    C21_Wrote =>
        LET input == pre.upcoming.value
            output == upcoming.value
            kept == C21_Kept(input)
            nth(i) == CHOOSE j \in kept : Cardinality({ k \in kept : k < j }) = i - 1
        IN  /\ upcoming.kind = "list"
            /\ \A i \in 1..Len(output) : C21_Valid(output[i])
            /\ \A i, j \in 1..Len(output) :
                  output[i]["href"] = output[j]["href"] => i = j
            /\ Len(output) = Cardinality(kept)
            /\ \A i \in 1..Len(output) : output[i] = input[nth(i)]

\* two different valid entries with the same href, of which the first one
\* is left
C21_Witness ==
    /\ C21_Wrote
    /\ Len(pre.upcoming.value) = 2
    /\ C21_Valid(pre.upcoming.value[1])
    /\ C21_Valid(pre.upcoming.value[2])
    /\ pre.upcoming.value[1] # pre.upcoming.value[2]
    /\ pre.upcoming.value[1]["href"] = pre.upcoming.value[2]["href"]
    /\ upcoming.value = <<pre.upcoming.value[1]>>

\* C23: the enrichment rate of the monitor counts the records of
\* results.json with maps or with a format, and is the enrichment rate
\* analyze_current_state reports for the same results.json.
C23_SameEnrichmentRate ==
    LET health == metrics.system_health
        info == analyze_current_state(results, scrape_state).results
    IN  ("enrichment_rate" \in DOMAIN health /\ "enrichment_rate" \in DOMAIN info)
            => /\ health["enriched_results"]
                     = Cardinality({ i \in DOMAIN results.value :
                                       \/ "maps" \in DOMAIN results.value[i]
                                       \/ "format" \in DOMAIN results.value[i] })
               /\ health["enrichment_rate"] = info["enrichment_rate"]

(***************************************************************************)
(* Claims about the two deduplications (SpecResults).                      *)
(***************************************************************************)
\* C24: for a results.json of at most ResultsCap records,
\* fix_duplicate_matches writes the list cleanup_results_data writes, and
\* run on what cleanup_results_data has just written it changes nothing.
C24_SameAsCleanup ==
    (/\ op = "fix_duplicate_matches"
     /\ pre.results.kind = "list"
     /\ Len(pre.results.value) <= ResultsCap)
        => /\ results = cleanup_results_data(pre.results).file
           /\ prevOp = "cleanup_results_data" => results = pre.results

\* the match-id values of the records of a list
C25_Ids(list) == { list[i]["match-id"] : i \in { j \in 1..Len(list) : HasId(list[j]) } }

C26_With(list, v) == { i \in 1..Len(list) : HasId(list[i]) /\ list[i]["match-id"] = v }

\* C26: of the records of the input with one match-id, the results.json
\* written by cleanup_results_data or fix_duplicate_matches holds one, the
\* first of them in the input, whatever the other fields of the later ones.
C26_FirstKept ==
    (/\ WroteResults("cleanup_results_data") \/ WroteResults("fix_duplicate_matches")
     /\ Cardinality(C4_Survivors(pre.results.value)) <= ResultsCap)
        => LET input == pre.results.value
               output == results.value
           IN  \A v \in C25_Ids(input) :
                  LET first == CHOOSE i \in C26_With(input, v) :
                                  \A j \in C26_With(input, v) : i <= j
                  IN  /\ Cardinality(C26_With(output, v)) = 1
                      /\ \A k \in C26_With(output, v) : output[k] = input[first]

(***************************************************************************)
(* Claims about runs with --auto-fix (SpecAutoFix).                        *)
(***************************************************************************)
\* a run with --auto-fix has returned and every artifact that exists is
\* well-formed
C27_Completed ==
    /\ pc = "done"
    /\ auto_fix
    /\ results.kind \in {"missing", "list"}
    /\ upcoming.kind \in {"missing", "list"}
    /\ scrape_state.kind \in {"missing", "dict"}

\* the calls of the run that is under way
C27_ThisRun ==
    LET start == CHOOSE i \in DOMAIN log :
                    /\ log[i] = "analyze_current_state"
                    /\ \A j \in DOMAIN log : log[j] = "analyze_current_state" => j <= i
    IN  SubSeq(log, start + 1, Len(log))

\* C27: when a run with --auto-fix has returned and no artifact is
\* unparseable or of the wrong type, the three artifacts exist,
\* analyze_current_state finds no duplicate and a results_offset of at most
\* 50000, validate_results records no duplicate match-id, and a run with
\* --auto-fix that follows one has called neither fix_duplicate_matches nor
\* reset_scrape_state and has left the three artifacts as they were.
C27_AutoFixConverges ==
    C27_Completed
        => LET fresh == analyze_current_state(results, scrape_state)
               errors == validate_file(DataValidator, "results.json", results).self.errors
           IN  /\ exists(results) /\ exists(upcoming) /\ exists(scrape_state)
               /\ get(fresh.results, "duplicates", 0) = 0
               /\ get(fresh.state, "results_offset", 0) <= OffsetCeiling
               /\ \A k \in DOMAIN errors : errors[k].text # "Duplicate match-id"
               /\ Runs >= 2 => /\ C27_ThisRun = <<"create_missing_files">>
                               /\ Artifacts = pre

\* a first run that removed duplicates and reset the offset, and a second
\* run that has returned
C27_Witness ==
    /\ C27_Completed
    /\ log = <<"analyze_current_state", "create_missing_files", "fix_duplicate_matches",
               "reset_scrape_state(reset_offset=True)",
               "analyze_current_state", "create_missing_files">>
    /\ Len(results.value) = 1
    /\ get(scrape_state.value, "results_offset", 0) = 0

(***************************************************************************)
(* Claims about the state reset in a run of the recovery helper            *)
(* (SpecRecovery).                                                         *)
(***************************************************************************)
\* the object reset_scrape_state started from: {} for a missing file
C28_Before == IF exists(pre.scrape_state) THEN pre.scrape_state.value ELSE EmptyDict

\* reset_scrape_state ran last, with the keyword given, and wrote
\* scrape_state.json
C28_Reset(keyword) ==
    /\ op = keyword
    /\ pre.scrape_state.kind \in {"missing", "dict"}
    /\ scrape_state.kind = "dict"

\* the key reset_scrape_state assigns with the keyword given
C28_Assigned ==
    IF op = "reset_scrape_state(reset_offset=True)" THEN "results_offset"
    ELSE "enriched_match_ids"

\* C28 as stated: after reset_scrape_state(reset_offset=True) or
\* reset_scrape_state(reset_enriched=True), called by the user or by the
\* run with --auto-fix, every key of scrape_state.json but the one that is
\* reset is as before (present with the same value, or absent), and
\* results.json and upcoming.json are as before.
C28_ResetFrameStrict ==
    (C28_Reset("reset_scrape_state(reset_offset=True)")
     \/ C28_Reset("reset_scrape_state(reset_enriched=True)"))
        => /\ results = pre.results
           /\ upcoming = pre.upcoming
           /\ \A k \in (DOMAIN C28_Before \cup DOMAIN scrape_state.value) \ {C28_Assigned} :
                 /\ k \in DOMAIN C28_Before
                 /\ k \in DOMAIN scrape_state.value
                 /\ scrape_state.value[k] = C28_Before[k]

\* C28, amended: every key but the one that is reset keeps its value when
\* it was present; results_offset and enriched_match_ids are added as 0 and
\* {} when they were absent, and no other key is added or removed;
\* results.json and upcoming.json are as before.
C28_ResetFrame ==
    (C28_Reset("reset_scrape_state(reset_offset=True)")
     \/ C28_Reset("reset_scrape_state(reset_enriched=True)"))
        => /\ results = pre.results
           /\ upcoming = pre.upcoming
           /\ DOMAIN scrape_state.value
                 = DOMAIN C28_Before \cup {"results_offset", "enriched_match_ids"}
           /\ \A k \in DOMAIN scrape_state.value \ {C28_Assigned} :
                 IF k \in DOMAIN C28_Before THEN scrape_state.value[k] = C28_Before[k]
                 ELSE IF k = "results_offset" THEN scrape_state.value[k] = 0
                 ELSE scrape_state.value[k] = EmptyDict

\* the run with --auto-fix has reset an offset above the ceiling of a state
\* with an enriched id and a key the scripts do not know
C28_Witness ==
    /\ C28_Reset("reset_scrape_state(reset_offset=True)")
    /\ auto_fix
    /\ pre.scrape_state.kind = "dict"
    /\ {"results_offset", "enriched_match_ids", "last_run"} \subseteq DOMAIN C28_Before
    /\ C28_Before["results_offset"] > OffsetCeiling
    /\ C28_Before["enriched_match_ids"] # EmptyDict
    /\ scrape_state.value["results_offset"] = 0
    /\ scrape_state.value["enriched_match_ids"] = C28_Before["enriched_match_ids"]
    /\ results.kind = "list"
    /\ results.value # <<>>

(***************************************************************************)
(* Claims about snapshots (SpecSnapshot).                                  *)
(***************************************************************************)
\* backup_current_data ran last and returned a directory that holds a copy
\* of every artifact that existed, equal to the artifact, and the
\* artifacts are as they were
C29_Faithful ==
    (op = "backup_current_data" /\ backup_dir.made)
        => /\ Artifacts = pre
           /\ backup_dir.timestamp \in DOMAIN backups
           /\ \A i \in DOMAIN files_to_backup :
                 LET name == files_to_backup[i]
                     file == FileOf(name, pre.results, pre.upcoming, pre.scrape_state)
                 IN  exists(file)
                        => /\ name \in DOMAIN backups[backup_dir.timestamp]
                           /\ backups[backup_dir.timestamp][name] = file

\* no copy of a backup directory is removed or changed by the step
C29_Stable ==
    \A t \in DOMAIN backups : \A name \in DOMAIN backups[t] :
        /\ t \in DOMAIN backups'
        /\ name \in DOMAIN backups'[t]
        /\ backups'[t][name] = backups[t][name]

\* C29: a call of backup_current_data that returns a directory has copied
\* every artifact that exists as it is and has changed no artifact, and no
\* step (a repair, or a later call of backup_current_data) changes a copy
\* that a backup directory holds.
C29_SnapshotFaithfulAndStable == [][C29_Faithful' /\ C29_Stable]_vars

\* C30: when a run with option 6 has returned and no artifact is
\* unparseable or of the wrong type, main has called backup_current_data,
\* create_missing_files, fix_duplicate_matches,
\* reset_scrape_state(reset_offset=True) and
\* reset_scrape_state(reset_enriched=True) in this order, the three
\* artifacts exist, no two records of results.json have the same match-id,
\* and scrape_state.json holds results_offset 0 and no enriched match-id.
C30_FullRecovery ==
    (/\ pc = "done"
     /\ choice = "6"
     /\ results.kind \in {"missing", "list"}
     /\ upcoming.kind \in {"missing", "list"}
     /\ scrape_state.kind \in {"missing", "dict"})
        => /\ Len(log) = 7
           /\ log[3] \in Snapshot
           /\ SubSeq(log, 4, 7) = <<"create_missing_files", "fix_duplicate_matches",
                                    "reset_scrape_state(reset_offset=True)",
                                    "reset_scrape_state(reset_enriched=True)">>
           /\ results.kind = "list" /\ upcoming.kind = "list" /\ scrape_state.kind = "dict"
           /\ \A i, j \in 1..Len(results.value) :
                 (/\ i # j
                  /\ HasId(results.value[i])
                  /\ HasId(results.value[j]))
                     => results.value[i]["match-id"] # results.value[j]["match-id"]
           /\ scrape_state.value["results_offset"] = 0
           /\ scrape_state.value["enriched_match_ids"] = EmptyDict

(***************************************************************************)
(* Claims about the three diagnoses (SpecDiagnosis).                       *)
(***************************************************************************)
\* C22: a run of validate_data.py, a call of analyze_current_state and a
\* run of monitor_system.py leave results.json, upcoming.json and
\* scrape_state.json as they were when the step started: none is changed
\* and none that is missing is created.
C22_DiagnosisReadOnly ==
    /\ results = pre.results
    /\ upcoming = pre.upcoming
    /\ scrape_state = pre.scrape_state

\* a monitoring run that has saved its report while results.json is still
\* missing
C22_Witness ==
    /\ pc = "done"
    /\ "monitoring_metrics.json" \in DOMAIN reports
    /\ "monitoring_alerts.txt" \in DOMAIN reports
    /\ results = Missing
    /\ pre.results = Missing

====
